---- MODULE Spec2Model ----
(***************************************************************************)
(* Brewery Planner (breweryplanner.py): the scenario store, its load with  *)
(* schema migration, its save through a temporary file, and the sidebar    *)
(* handlers that create, duplicate, delete and select scenarios; the       *)
(* Excel export and import; the calculation engine (recipe cost, mix       *)
(* normalisation, monthly P&L, Price installment, payback series); and the *)
(* CAPEX, Receitas, Mix and Financeiro tabs inside a script run.           *)
(***************************************************************************)
EXTENDS Integers, Sequences, FiniteSets, TLC

\* ------------------------------------------------------------------------
\* Bounds of the model
\* ------------------------------------------------------------------------
\* longest legacy "scenarios" list in a persisted document
MaxList == 2
\* most scenarios in a current-format persisted document
MaxDocScenarios == 2
\* the sidebar handlers stop adding scenarios at this many
MaxScenarios == 2
\* longest scenario name the duplicate handler is let to produce
MaxNameLen == 12
\* failed saves after which the model lets no further save fail
MaxFailures == 1
\* number of write calls json.dump makes for one document
NChunks == 2

\* ------------------------------------------------------------------------
\* Constants of the program
\* ------------------------------------------------------------------------
DEFAULT_SCENARIO_NAME == "Base"

\* ------------------------------------------------------------------------
\* JSON values.  A leaf is a tagged token: t is its JSON type (or, for the
\* content of a field group, where the content came from), s its text.
\* ------------------------------------------------------------------------
Val(t, s) == [t |-> t, s |-> s]
Null == Val("null", "")
Str(s) == Val("str", s)

\* Python truthiness of a value (the "x or y" idiom of load_db)
Truthy(v) ==
  ~ \/ v.t = "null"
    \/ v.t = "str" /\ v.s = ""
    \/ v.t = "dict" /\ v.s = ""
    \/ v.t = "num" /\ v.s = "0"

\* str(i) for the positions and counters the model reaches
ToStr(i) ==
  CASE i = 0 -> "0" [] i = 1 -> "1" [] i = 2 -> "2" [] i = 3 -> "3"
    [] i = 4 -> "4" [] i = 5 -> "5" [] i = 6 -> "6" [] i = 7 -> "7"
    [] i = 8 -> "8" [] OTHER -> "9"

\* ------------------------------------------------------------------------
\* Python dicts.  A dict whose key order is observable (the scenario
\* mapping: "first available name") is a sequence of [k, v] entries in
\* insertion order; a dict whose order is not observable (the field groups
\* of one scenario) is a function from its keys.
\* ------------------------------------------------------------------------
DictKeys(d) == [i \in 1..Len(d) |-> d[i].k]
DictKeySet(d) == {d[i].k : i \in 1..Len(d)}
DictHas(d, key) == \E i \in 1..Len(d) : d[i].k = key
DictGet(d, key) == d[CHOOSE i \in 1..Len(d) : d[i].k = key].v
DictSet(d, key, v) ==
  IF DictHas(d, key)
  THEN [i \in 1..Len(d) |-> IF d[i].k = key THEN [k |-> key, v |-> v] ELSE d[i]]
  ELSE Append(d, [k |-> key, v |-> v])
DictPop(d, key) == SelectSeq(d, LAMBDA e : e.k # key)

EmptyFields == [x \in {} |-> Null]
FieldSet(f, key, v) == [x \in DOMAIN f \cup {key} |-> IF x = key THEN v ELSE f[x]]
FieldDel(f, key) == [x \in DOMAIN f \ {key} |-> f[x]]
\* dict.update: g's entries over f's
FieldUpdate(f, g) == [x \in DOMAIN f \cup DOMAIN g |-> IF x \in DOMAIN g THEN g[x] ELSE f[x]]

\* ------------------------------------------------------------------------
\* default_scenario and _empty_db
\* ------------------------------------------------------------------------
CurrentKeys ==
  {"capex_db", "opex_outros_db", "funcionarios_db", "insumos_db",
   "receitas_header", "receitas_detalhe", "embalagens_db", "precos_sku",
   "mix", "premissas", "financiamento"}

\* every field group of the default scenario holds the built-in content
default_scenario == [k \in CurrentKeys |-> Val("default", k)]

MkDb(scenarios, selected) == [scenarios |-> scenarios, selected |-> selected]

empty_db ==
  MkDb(<<[k |-> DEFAULT_SCENARIO_NAME, v |-> default_scenario]>>, DEFAULT_SCENARIO_NAME)

NoDb == MkDb(<<>>, "")

\* ------------------------------------------------------------------------
\* Persisted documents.  kind is what DB_FILE holds: no file ("missing"),
\* bytes json.load rejects ("garbage"), or a document whose top level is
\* null / bool / num / str / list / obj.
\*   contains  - for a top-level string: the key names occurring in it as
\*               substrings; for a top-level list: the key names among its
\*               elements (what Python's "in" answers for them)
\*   top       - for an object: its keys other than "scenarios"/"selected"
\*   scen      - the "scenarios" entry: absent, a list, a dict, or other
\*   sel       - the "selected" entry: absent, a string, or an unhashable
\*               value (a list or an object)
\* ------------------------------------------------------------------------
MkDoc(kind, contains, top, scen, sel) ==
  [kind |-> kind, contains |-> contains, top |-> top, scen |-> scen, sel |-> sel]

ScenAbsent == [kind |-> "absent", elems |-> <<>>, map |-> <<>>]
ScenList(elems) == [kind |-> "list", elems |-> elems, map |-> <<>>]
ScenDict(map) == [kind |-> "dict", elems |-> <<>>, map |-> map]
ScenOther == [kind |-> "other", elems |-> <<>>, map |-> <<>>]

SelAbsent == [kind |-> "absent", name |-> ""]
SelStr(name) == [kind |-> "str", name |-> name]
SelUnhashable == [kind |-> "unhashable", name |-> ""]

\* a file: the document and how many of its NChunks pieces are on disk
MkFile(doc, written) == [doc |-> doc, written |-> written]

\* the thirteen keys MIGRAÇÃO 1 looks for
LegacyKeys ==
  {"capex_db", "opex_db", "insumos_db", "receitas_header", "receitas_detalhe",
   "precos_venda", "opex_outros_db", "funcionarios_db", "embalagens_db",
   "precos_sku", "mix", "premissas", "financiamento"}

\* ------------------------------------------------------------------------
\* load_db
\* ------------------------------------------------------------------------
\* sc[k] = raw.get(k) for every legacy key present in the document
CopyLegacy(top) == [k \in LegacyKeys \cap DOMAIN top |-> top[k]]

\* the rename done with sc[old] instead of sc.pop(old)
RenameField_copies(sc, old, new) ==
  IF old \in DOMAIN sc /\ new \notin DOMAIN sc
  THEN FieldSet(sc, new, sc[old])
  ELSE sc

\* if old in sc and new not in sc: sc[new] = sc.pop(old)
RenameField(sc, old, new) ==
  IF old \in DOMAIN sc /\ new \notin DOMAIN sc
  THEN FieldSet(FieldDel(sc, old), new, sc[old])
  ELSE sc

\* the merge without its "is not None" filter
NotNone_keepsNull(sc) == sc

\* {k: v for k, v in sc.items() if v is not None}
NotNone(sc) == [k \in {x \in DOMAIN sc : sc[x].t # "null"} |-> sc[k]]

\* MIGRAÇÃO 1: the document is one scenario's fields
MigrateLegacy(top) ==
  LET sc0 == CopyLegacy(top)
      sc1 == RenameField(sc0, "opex_db", "opex_outros_db")
      sc2 == RenameField(sc1, "precos_venda", "precos_sku")
      base == FieldUpdate(default_scenario, NotNone(sc2))
  IN  MkDb(<<[k |-> DEFAULT_SCENARIO_NAME, v |-> base]>>, DEFAULT_SCENARIO_NAME)

\* item.get(key): None when the key is absent
ItemGet(d, key) == IF key \in DOMAIN d THEN d[key] ELSE Null

\* the name taken from whichever key is present, empty or not
ItemName_ifPresent(d, i) ==
  IF "name" \in DOMAIN d THEN d["name"]
  ELSE IF "Nome" \in DOMAIN d THEN d["Nome"]
  ELSE Str("Cenário " \o ToStr(i + 1))

\* name = item.get("name") or item.get("Nome") or f"Cenário {i+1}"   (i 0-based)
ItemName(d, i) ==
  IF Truthy(ItemGet(d, "name")) THEN ItemGet(d, "name")
  ELSE IF Truthy(ItemGet(d, "Nome")) THEN ItemGet(d, "Nome")
  ELSE Str("Cenário " \o ToStr(i + 1))

\* the dict a nested "data" token stands for
NestedData(v) == [k \in {"capex_db"} |-> Val("doc", v.s)]

\* data = item.get("data") or item
ItemData(d) ==
  IF Truthy(ItemGet(d, "data")) THEN NestedData(ItemGet(d, "data")) ELSE d

\* MIGRAÇÃO 2: the loop over enumerate(raw["scenarios"]), from index i on
RECURSIVE ListToDict(_, _, _)
ListToDict(elems, i, sc_dict) ==
  IF i >= Len(elems) THEN sc_dict
  ELSE LET item == elems[i + 1]
       IN  IF item.isDict
           THEN ListToDict(elems, i + 1,
                           DictSet(sc_dict, ItemName(item.d, i).s, ItemData(item.d)))
           ELSE ListToDict(elems, i + 1, sc_dict)

Returned(store) == [raised |-> FALSE, db |-> store]
Raised == [raised |-> TRUE, db |-> NoDb]

\* the part of load_db after MIGRAÇÃO 1, for a top-level object
LoadCurrent(doc) ==
  LET scen  == IF doc.scen.kind = "list"
               THEN ScenDict(ListToDict(doc.scen.elems, 0, <<>>))
               ELSE doc.scen
      reset == scen.kind # "dict" \/ Len(scen.map) = 0
      scenarios == IF reset THEN empty_db.scenarios ELSE scen.map
      sel   == IF reset THEN SelStr(empty_db.selected) ELSE doc.sel
  IN  IF sel.kind = "unhashable" THEN Raised   \* "sel not in dict": TypeError
      ELSE IF sel.kind = "str" /\ DictHas(scenarios, sel.name)
           THEN Returned(MkDb(scenarios, sel.name))
           ELSE Returned(MkDb(scenarios, scenarios[1].k))

load_db(file) ==
  LET doc == file.doc
  IN  IF doc.kind = "missing" THEN Returned(empty_db)
      ELSE IF doc.kind = "garbage" \/ file.written < NChunks THEN Returned(empty_db)
      ELSE IF doc.kind \in {"null", "bool", "num"}
           THEN Raised                         \* "scenarios" not in raw: TypeError
      ELSE IF doc.kind \in {"str", "list"}
           THEN IF "scenarios" \in doc.contains
                THEN Raised                    \* raw.get("scenarios"): AttributeError
                ELSE IF LegacyKeys \cap doc.contains # {}
                     THEN Raised               \* raw.get(k): AttributeError
                     ELSE Returned(MigrateLegacy(EmptyFields))
      ELSE IF doc.scen.kind = "absent" THEN Returned(MigrateLegacy(doc.top))
      ELSE LoadCurrent(doc)

\* ------------------------------------------------------------------------
\* The documents the model loads
\* ------------------------------------------------------------------------
\* sequences over S of length 0..n
SeqsUpTo(S, n) == UNION {[1..m -> S] : m \in 0..n}

KeyProbes == {"scenarios", "capex_db"}

NonObjectDocs ==
  {MkDoc(kind, {}, EmptyFields, ScenAbsent, SelAbsent) :
     kind \in {"missing", "garbage", "null", "bool", "num"}}
  \cup {MkDoc(kind, c, EmptyFields, ScenAbsent, SelAbsent) :
          kind \in {"str", "list"}, c \in SUBSET KeyProbes}

\* legacy shape A: any subset of these keys, each null or with content
LegacyProbeKeys == {"capex_db", "opex_db", "opex_outros_db", "precos_venda", "precos_sku"}

LegacyTops ==
  UNION {{[k \in K |-> IF f[k] THEN Val("doc", k) ELSE Null] : f \in [K -> BOOLEAN]} :
           K \in SUBSET LegacyProbeKeys}

LegacyDocs == {MkDoc("obj", {}, top, ScenAbsent, SelAbsent) : top \in LegacyTops}

\* legacy shape B: list elements; Absent marks a key the element lacks
Absent == Val("absent", "")
MkItem(name, nome, data) ==
  LET all == [k \in {"name", "Nome", "data", "capex_db"} |->
                CASE k = "name" -> name [] k = "Nome" -> nome
                  [] k = "data" -> data [] OTHER -> Val("doc", "item")]
  IN  [isDict |-> TRUE, d |-> [k \in {x \in DOMAIN all : all[x] # Absent} |-> all[k]]]
NotADict == [isDict |-> FALSE, d |-> EmptyFields]

ListItems ==
  {NotADict}
  \cup {MkItem(name, nome, data) :
          name \in {Absent, Str(""), Str("A")},
          nome \in {Absent, Str("Cenário 2")},
          data \in {Absent, Val("dict", ""), Val("dict", "D")}}

DocSelections == {SelAbsent, SelStr("A"), SelStr("Z"), SelUnhashable}

ListDocs ==
  {MkDoc("obj", {}, EmptyFields, ScenList(elems), sel) :
     elems \in SeqsUpTo(ListItems, MaxList), sel \in {SelAbsent, SelStr("A"), SelUnhashable}}

\* current format: a mapping of distinct names, in some order
DocNames == {DEFAULT_SCENARIO_NAME, "A"}
NameOrders(n) ==
  {o \in SeqsUpTo(DocNames, n) : \A i, j \in 1..Len(o) : i # j => o[i] # o[j]}
DictOf(names) == [i \in 1..Len(names) |-> [k |-> names[i], v |-> default_scenario]]

DictDocs ==
  {MkDoc("obj", {}, EmptyFields, ScenDict(DictOf(o)), sel) :
     o \in NameOrders(MaxDocScenarios), sel \in DocSelections}

OtherDocs ==
  {MkDoc("obj", {}, EmptyFields, ScenOther, sel) : sel \in DocSelections}

AllDocs == NonObjectDocs \cup LegacyDocs \cup ListDocs \cup DictDocs \cup OtherDocs

\* ------------------------------------------------------------------------
\* State
\* ------------------------------------------------------------------------
VARIABLES
  DB_FILE,      \* the file DB_DIR/breweryplanner_db.json
  db,           \* st.session_state.db
  session,      \* "none": no db in the session yet; "ready"; "failed": load_db raised
  pc,           \* where the running save_db is: "idle" when none is running
  tmp,          \* the temporary file of the current or last save_db
  failures,     \* how many save_db calls have failed so far
  result,       \* how the last save_db ended, as its caller and the user see it
  call,         \* DB_FILE and db as they were when the running save_db was entered
  xl,           \* the spreadsheet the sidebar exported, and what became of it
  view          \* the figures the page last computed, with the inputs they came from

vars == <<DB_FILE, db, session, pc, tmp, failures, result, call, xl, view>>
saveVars == <<pc, tmp, failures, result, call>>

NoSheets == [phase |-> "none", sheets |-> <<>>, src |-> <<>>]
NoView == [kind |-> "none"]

NoTmp == [exists |-> FALSE, written |-> 0]
NoResult == [ret |-> "none", outcome |-> "none", msg |-> "none"]
MkCall(prev, store) == [prev |-> prev, db |-> store]
NoCall == MkCall(MkFile(MkDoc("missing", {}, EmptyFields, ScenAbsent, SelAbsent), 0), NoDb)

\* SESSION INIT: if "db" not in st.session_state: db = load_db()
SessionInit ==
  /\ session = "none"
  /\ pc = "idle"
  /\ LET r == load_db(DB_FILE)
     IN  /\ session' = IF r.raised THEN "failed" ELSE "ready"
         /\ db' = r.db
  /\ UNCHANGED <<DB_FILE, saveVars, xl, view>>

\* load_db applied to every document of the model
InitLoad ==
  /\ DB_FILE \in {MkFile(d, NChunks) : d \in AllDocs}
  /\ db = NoDb
  /\ session = "none"
  /\ pc = "idle" /\ tmp = NoTmp /\ failures = 0 /\ result = NoResult
  /\ call = NoCall
  /\ xl = NoSheets
  /\ view = NoView

NextLoad == SessionInit

SpecLoad == InitLoad /\ [][NextLoad]_vars

\* ------------------------------------------------------------------------
\* Properties of load_db
\* ------------------------------------------------------------------------
LoadedDoc == DB_FILE.doc
LoadedLegacy == session = "ready" /\ LoadedDoc.kind = "obj" /\ LoadedDoc.scen.kind = "absent"
LoadedList == session = "ready" /\ LoadedDoc.kind = "obj" /\ LoadedDoc.scen.kind = "list"
OnlyBase == Len(db.scenarios) = 1 /\ db.scenarios[1].k = "Base" /\ db.selected = "Base"
BaseData == db.scenarios[1].v

\* C3: load_db never raises to its caller, whatever DB_FILE holds (no file,
\* unparseable bytes, or a document whose top level is of any JSON type), and
\* a missing or unparseable file gives the fresh store with the single
\* default "Base" scenario.
C3_LoadNeverFails ==
  /\ session # "failed"
  /\ (session = "ready" /\ LoadedDoc.kind \in {"missing", "garbage"}) => db = empty_db

\* the name a field group may also come under in a legacy document
LegacyAlias(g) ==
  CASE g = "opex_outros_db" -> "opex_db" [] g = "precos_sku" -> "precos_venda" [] OTHER -> g

\* the value a legacy document supplies for group g (Absent if it supplies none)
Supplied(top, g) ==
  IF g \in DOMAIN top THEN top[g]
  ELSE IF LegacyAlias(g) \in DOMAIN top THEN top[LegacyAlias(g)]
  ELSE Absent

\* C4 as stated: a legacy single-scenario document loads to exactly one
\* scenario, "Base", selected, and every field group equals the document's
\* value whenever the document has the group, the default's otherwise.
C4_LegacyFieldsAsStated ==
  LoadedLegacy =>
    /\ OnlyBase
    /\ \A g \in CurrentKeys :
         BaseData[g] = IF Supplied(LoadedDoc.top, g) # Absent
                       THEN Supplied(LoadedDoc.top, g)
                       ELSE default_scenario[g]

\* C4 amended: a legacy single-scenario document loads to exactly one
\* scenario, "Base", selected; every field group equals the document's value
\* when the document supplies a non-null one, and the default scenario's
\* value when the document lacks the group or gives it as null.
C4_LegacyFieldsMerged ==
  LoadedLegacy =>
    /\ OnlyBase
    /\ CurrentKeys \subseteq DOMAIN BaseData
    /\ \A g \in CurrentKeys :
         BaseData[g] = IF Supplied(LoadedDoc.top, g) \notin {Absent, Null}
                       THEN Supplied(LoadedDoc.top, g)
                       ELSE default_scenario[g]

\* a legacy document with content for one group, null for another and a
\* third one missing has been migrated
C4_Witness ==
  /\ LoadedLegacy
  /\ "capex_db" \in DOMAIN LoadedDoc.top /\ LoadedDoc.top["capex_db"] # Null
  /\ "precos_sku" \in DOMAIN LoadedDoc.top /\ LoadedDoc.top["precos_sku"] = Null
  /\ DOMAIN LoadedDoc.top = {"capex_db", "precos_sku"}
  /\ BaseData["capex_db"] = Val("doc", "capex_db")
  /\ BaseData["precos_sku"] = default_scenario["precos_sku"]
  /\ BaseData["mix"] = default_scenario["mix"]

Renames == {<<"opex_db", "opex_outros_db">>, <<"precos_venda", "precos_sku">>}

\* C5 as stated: whenever a legacy document carries opex_db / precos_venda,
\* the migrated Base holds that content under opex_outros_db / precos_sku and
\* does not carry the legacy name.
C5_RenamedAsStated ==
  LoadedLegacy =>
    \A r \in Renames :
      r[1] \in DOMAIN LoadedDoc.top =>
        /\ r[1] \notin DOMAIN BaseData
        /\ BaseData[r[2]] = LoadedDoc.top[r[1]]

\* C5 amended: when a legacy document carries opex_db / precos_venda and not
\* the current name, the migrated Base does not carry the legacy name and
\* holds the legacy content under the current name (the default if that
\* content is null); when the document carries both names, the current
\* name's own value is kept and a non-null legacy field stays in Base under
\* its legacy name.
C5_RenamedUnlessCurrentPresent ==
  LoadedLegacy =>
    \A r \in Renames :
      LET top == LoadedDoc.top
      IN  /\ (r[1] \in DOMAIN top /\ r[2] \notin DOMAIN top) =>
               /\ r[1] \notin DOMAIN BaseData
               /\ BaseData[r[2]] = IF top[r[1]] # Null THEN top[r[1]]
                                   ELSE default_scenario[r[2]]
          /\ (r[1] \in DOMAIN top /\ r[2] \in DOMAIN top) =>
               /\ BaseData[r[2]] = IF top[r[2]] # Null THEN top[r[2]]
                                   ELSE default_scenario[r[2]]
               /\ (r[1] \in DOMAIN BaseData) = (top[r[1]] # Null)
               /\ r[1] \in DOMAIN BaseData => BaseData[r[1]] = top[r[1]]

\* a document with opex_db only has been migrated: its content is now under
\* opex_outros_db
C5_Witness ==
  /\ LoadedLegacy
  /\ DOMAIN LoadedDoc.top = {"opex_db"}
  /\ LoadedDoc.top["opex_db"] = Val("doc", "opex_db")
  /\ BaseData["opex_outros_db"] = Val("doc", "opex_db")
  /\ "opex_db" \notin DOMAIN BaseData

\* the list of a loaded legacy shape B document, and its mapping elements
LoadedElems == LoadedDoc.scen.elems
MappingIdx == {i \in 1..Len(LoadedElems) : LoadedElems[i].isDict}
HasKey(i, key) == key \in DOMAIN LoadedElems[i].d
Synthesized(i) == "Cenário " \o ToStr(i)

\* C6 as stated: name and data of the entry made from element i
C6_StatedName(i) ==
  IF HasKey(i, "name") THEN LoadedElems[i].d["name"].s
  ELSE IF HasKey(i, "Nome") THEN LoadedElems[i].d["Nome"].s
  ELSE Synthesized(i)
C6_StatedData(i) ==
  IF HasKey(i, "data") THEN [k \in {"capex_db"} |-> Val("doc", LoadedElems[i].d["data"].s)]
  ELSE LoadedElems[i].d

\* C6 as stated: loading a document whose "scenarios" is a list turns each
\* list element into its own entry of the mapping, named by the element's
\* name/Nome field if present and by its 1-based position otherwise, holding
\* the element's nested data field if it carries one and the element itself
\* otherwise.
C6_EachElementOwnEntryAsStated ==
  (LoadedList /\ Len(LoadedElems) > 0) =>
    /\ Len(db.scenarios) = Len(LoadedElems)
    /\ \A i \in 1..Len(LoadedElems) :
         /\ DictHas(db.scenarios, C6_StatedName(i))
         /\ DictGet(db.scenarios, C6_StatedName(i)) = C6_StatedData(i)

\* a field counts only when it is present and non-empty
NonEmpty(i, key) ==
  /\ HasKey(i, key)
  /\ LoadedElems[i].d[key] \notin {Null, Str(""), Val("dict", ""), Val("num", "0")}
C6_Name(i) ==
  IF NonEmpty(i, "name") THEN LoadedElems[i].d["name"].s
  ELSE IF NonEmpty(i, "Nome") THEN LoadedElems[i].d["Nome"].s
  ELSE Synthesized(i)
C6_Data(i) ==
  IF NonEmpty(i, "data") THEN [k \in {"capex_db"} |-> Val("doc", LoadedElems[i].d["data"].s)]
  ELSE LoadedElems[i].d

\* C6 amended: loading a document whose "scenarios" is a list turns each list
\* element that is a mapping into an entry named by the element's non-empty
\* name field, else its non-empty Nome field, else "Cenário N" for its 1-based
\* position N, holding the element's non-empty nested data field, else the
\* element itself; elements that are not mappings are skipped; of several
\* elements yielding the same name only the last one's data is kept, at the
\* first one's place; if no element is a mapping the store is the fresh
\* default store.
C6_MappingElementsConverted ==
  LoadedList =>
    IF MappingIdx = {} THEN db = empty_db
    ELSE /\ DictKeySet(db.scenarios) = {C6_Name(i) : i \in MappingIdx}
         /\ Len(db.scenarios) = Cardinality({C6_Name(i) : i \in MappingIdx})
         /\ \A i \in MappingIdx :
              (\A j \in MappingIdx : j > i => C6_Name(j) # C6_Name(i)) =>
                 DictGet(db.scenarios, C6_Name(i)) = C6_Data(i)
         /\ \A m, n \in 1..Len(db.scenarios) :
              m < n =>
                (CHOOSE i \in MappingIdx :
                   /\ C6_Name(i) = db.scenarios[m].k
                   /\ \A j \in MappingIdx : C6_Name(j) = C6_Name(i) => i <= j)
                < (CHOOSE i \in MappingIdx :
                     /\ C6_Name(i) = db.scenarios[n].k
                     /\ \A j \in MappingIdx : C6_Name(j) = C6_Name(i) => i <= j)

\* a two-element list has been migrated: the first element is named by its
\* name field and carries nested data, the second has no name and is stored
\* whole under its position's name
C6_Witness ==
  /\ LoadedList
  /\ Len(LoadedElems) = 2
  /\ MappingIdx = {1, 2}
  /\ NonEmpty(1, "name") /\ NonEmpty(1, "data")
  /\ ~HasKey(2, "name") /\ ~HasKey(2, "Nome") /\ ~HasKey(2, "data")
  /\ DictKeys(db.scenarios) = <<"A", "Cenário 2">>
  /\ DictGet(db.scenarios, "A") = [k \in {"capex_db"} |-> Val("doc", "D")]
  /\ DictGet(db.scenarios, "Cenário 2") = LoadedElems[2].d

\* ------------------------------------------------------------------------
\* Sidebar: scenario selection and the create / duplicate / delete handlers
\* ------------------------------------------------------------------------
get_scenario_name(store) == store.selected

\* set_selected: ignores a name that is not in the mapping
set_selected(store, name) ==
  IF DictHas(store.scenarios, name) THEN [store EXCEPT !.selected = name] ELSE store

\* str.strip() on the characters of the text input, and the string they spell
RECURSIVE LStrip(_)
LStrip(cs) == IF cs # <<>> /\ Head(cs) = " " THEN LStrip(Tail(cs)) ELSE cs
RECURSIVE RStrip(_)
RStrip(cs) ==
  IF cs # <<>> /\ cs[Len(cs)] = " " THEN RStrip(SubSeq(cs, 1, Len(cs) - 1)) ELSE cs
Strip(cs) == RStrip(LStrip(cs))
RECURSIVE Join(_)
Join(cs) == IF cs = <<>> THEN "" ELSE Head(cs) \o Join(Tail(cs))

\* the base name taken without looking it up in the mapping
ProbeName_unprobed(scenarios, base_name, name, i) == name

\* name = base_name; i = 1; while name in scenarios: i += 1; name = f"{base_name} {i}"
RECURSIVE ProbeName(_, _, _, _)
ProbeName(scenarios, base_name, name, i) ==
  IF DictHas(scenarios, name)
  THEN ProbeName(scenarios, base_name, base_name \o " " \o ToStr(i + 1), i + 1)
  ELSE name

\* btn_new, up to its call of save_db
btn_new(store, new_name) ==
  LET base_name == IF Join(Strip(new_name)) # "" THEN Join(Strip(new_name))
                   ELSE "Novo cenário"
      name == ProbeName(store.scenarios, base_name, base_name, 1)
  IN  set_selected([store EXCEPT !.scenarios = DictSet(@, name, default_scenario)], name)

\* btn_dup, up to its call of save_db
btn_dup(store) ==
  LET cur == get_scenario_name(store)
      base_name == cur \o " (cópia)"
      name == ProbeName(store.scenarios, base_name, base_name, 1)
  IN  set_selected([store EXCEPT !.scenarios = DictSet(@, name, DictGet(store.scenarios, cur))],
                   name)

\* btn_del without its test: never refuses
DeleteRefused_never(store) == FALSE

\* btn_del: the test that refuses to delete the last scenario
DeleteRefused(store) == Len(store.scenarios) <= 1

\* btn_del that pops the scenario and leaves "selected" as it was
btn_del_keepsSelected(store) ==
  [store EXCEPT !.scenarios = DictPop(@, get_scenario_name(store))]

\* btn_del, the else branch up to its call of save_db; list(...)[0] of an
\* empty mapping raises IndexError and leaves the store as popped
btn_del(store) ==
  LET popped == [store EXCEPT !.scenarios = DictPop(@, get_scenario_name(store))]
  IN  IF Len(popped.scenarios) = 0 THEN popped
      ELSE set_selected(popped, popped.scenarios[1].k)

\* ------------------------------------------------------------------------
\* save_db, one step per call it makes
\* ------------------------------------------------------------------------
\* json.dump of the store: the document load_db reads back
SavedDoc(store) ==
  MkDoc("obj", {}, EmptyFields, ScenDict(store.scenarios), SelStr(store.selected))

\* entry of save_db(store)
EnterSave(store) ==
  /\ pc' = "mkdir"
  /\ call' = MkCall(DB_FILE, store)
  /\ tmp' = NoTmp
  /\ result' = NoResult
  /\ UNCHANGED failures

\* DB_DIR.mkdir(parents=True, exist_ok=True)
SaveMkdir ==
  /\ pc = "mkdir"
  /\ pc' = "mktemp"
  /\ UNCHANGED <<DB_FILE, db, session, tmp, failures, result, call, xl, view>>

\* NamedTemporaryFile("w", delete=False, dir=DB_DIR)
SaveMktemp ==
  /\ pc = "mktemp"
  /\ tmp' = [exists |-> TRUE, written |-> 0]
  /\ pc' = "dump"
  /\ UNCHANGED <<DB_FILE, db, session, failures, result, call, xl, view>>

\* json.dump writing into DB_FILE itself
dump_write_inPlace(dest, t, doc) ==
  [dest |-> MkFile(doc, t.written + 1), tmp |-> [t EXCEPT !.written = @ + 1]]

\* one write of json.dump(db, tmp): the files after it
dump_write(dest, t, doc) == [dest |-> dest, tmp |-> [t EXCEPT !.written = @ + 1]]

SaveDump ==
  /\ pc = "dump"
  /\ tmp.written < NChunks
  /\ LET fs == dump_write(DB_FILE, tmp, SavedDoc(call.db))
     IN  DB_FILE' = fs.dest /\ tmp' = fs.tmp
  /\ UNCHANGED <<db, session, pc, failures, result, call, xl, view>>

\* leaving the with block closes the file
SaveClose ==
  /\ pc = "dump"
  /\ tmp.written = NChunks
  /\ pc' = "replace"
  /\ UNCHANGED <<DB_FILE, db, session, tmp, failures, result, call, xl, view>>

\* os.replace(tmp_path, DB_FILE): the files after it
os_replace(dest, t, doc) == [dest |-> MkFile(doc, t.written), tmp |-> NoTmp]

SaveReplace ==
  /\ pc = "replace"
  /\ LET fs == os_replace(DB_FILE, tmp, SavedDoc(call.db))
     IN  DB_FILE' = fs.dest /\ tmp' = fs.tmp
  /\ pc' = "toast"
  /\ UNCHANGED <<db, session, failures, result, call, xl, view>>

\* safe_toast("Dados salvos com sucesso!") and the normal return
SaveToast ==
  /\ pc = "toast"
  /\ result' = [ret |-> "returned", outcome |-> "ok", msg |-> "toast"]
  /\ pc' = "idle"
  /\ call' = NoCall
  /\ UNCHANGED <<DB_FILE, db, session, tmp, failures, xl, view>>

\* except Exception as e: st.error(...) - what save_db leaves and returns
\* when the step at pc raises
except_handler(t) ==
  [tmp |-> t, result |-> [ret |-> "returned", outcome |-> "failed", msg |-> "error"]]

SaveFail ==
  /\ pc \in {"mkdir", "mktemp", "dump", "replace"}
  /\ failures < MaxFailures
  /\ LET h == except_handler(tmp)
     IN  tmp' = h.tmp /\ result' = h.result
  /\ pc' = "idle"
  /\ failures' = failures + 1
  /\ call' = NoCall
  /\ UNCHANGED <<DB_FILE, db, session, xl, view>>

\* the process dies (at any step of a save, or between handlers): the
\* session and its db are gone, the files stay as they are
ProcessExit ==
  /\ session = "ready"
  /\ session' = "none"
  /\ db' = NoDb
  /\ pc' = "idle"
  /\ result' = NoResult
  /\ call' = NoCall
  /\ UNCHANGED <<DB_FILE, tmp, failures, xl, view>>

\* ------------------------------------------------------------------------
\* The handlers
\* ------------------------------------------------------------------------
Idle == session = "ready" /\ pc = "idle"

\* the selectbox: set_selected(new_sel) for an option other than the selected
Select ==
  /\ Idle
  /\ \E new_sel \in DictKeySet(db.scenarios) :
       /\ new_sel # get_scenario_name(db)
       /\ db' = set_selected(db, new_sel)
  /\ UNCHANGED <<DB_FILE, session, saveVars, xl, view>>

\* what the user may have typed into "Nome do novo cenário"
NewNameInputs == {<<>>, <<" ">>, <<"A">>, <<" ", "A", " ">>}

BtnNew ==
  /\ Idle
  /\ Len(db.scenarios) < MaxScenarios
  /\ \E new_name \in NewNameInputs :
       /\ db' = btn_new(db, new_name)
       /\ EnterSave(db')
  /\ UNCHANGED <<DB_FILE, session, xl, view>>

BtnDup ==
  /\ Idle
  /\ Len(db.scenarios) < MaxScenarios
  /\ Len(get_scenario_name(db) \o " (cópia)") <= MaxNameLen
  /\ db' = btn_dup(db)
  /\ EnterSave(db')
  /\ UNCHANGED <<DB_FILE, session, xl, view>>

BtnDel ==
  /\ Idle
  /\ IF DeleteRefused(db)
     THEN /\ result' = [ret |-> "none", outcome |-> "none", msg |-> "warning"]
          /\ UNCHANGED <<db, pc, tmp, failures, call>>
     ELSE /\ db' = btn_del(db)
          /\ EnterSave(db')
  /\ UNCHANGED <<DB_FILE, session, xl, view>>

BtnSave ==
  /\ Idle
  /\ EnterSave(db)
  /\ UNCHANGED <<DB_FILE, db, session, xl, view>>

\* ------------------------------------------------------------------------
\* The store and its file
\* ------------------------------------------------------------------------
\* one document of each shape load_db tells apart
StoreDocs ==
  {d \in NonObjectDocs : d.contains \in {{}, {"scenarios"}}}
  \cup {d \in LegacyDocs : DOMAIN d.top = {"capex_db"} /\ d.top["capex_db"] # Null}
  \cup {MkDoc("obj", {}, EmptyFields, ScenList(elems), SelStr("A")) :
          elems \in {<<>>, <<NotADict>>,
                     <<MkItem(Absent, Absent, Val("dict", "D")), MkItem(Str("A"), Absent, Absent)>>}}
  \cup {d \in DictDocs : d.sel \in {SelStr("Z"), SelUnhashable}}
  \cup {d \in OtherDocs : d.sel = SelAbsent}

Init ==
  /\ DB_FILE \in {MkFile(d, NChunks) : d \in StoreDocs}
  /\ db = NoDb
  /\ session = "none"
  /\ pc = "idle" /\ tmp = NoTmp /\ failures = 0 /\ result = NoResult
  /\ call = NoCall
  /\ xl = NoSheets
  /\ view = NoView

Next ==
  \/ SessionInit
  \/ Select
  \/ BtnNew
  \/ BtnDup
  \/ BtnDel
  \/ BtnSave
  \/ SaveMkdir
  \/ SaveMktemp
  \/ SaveDump
  \/ SaveClose
  \/ SaveReplace
  \/ SaveToast
  \/ SaveFail
  \/ ProcessExit

Spec == Init /\ [][Next]_vars

\* ------------------------------------------------------------------------
\* Properties of the store and of save_db
\* ------------------------------------------------------------------------
\* C1: the store always holds at least one scenario - after load_db of any
\* document and after any sequence of create, duplicate, delete and select -
\* and a delete clicked while exactly one scenario exists is refused: the
\* store and the file stay as they are and no save starts.
C1_StoreNeverEmpty ==
  /\ [](session = "ready" => Len(db.scenarios) >= 1)
  /\ [][(BtnDel /\ Len(db.scenarios) = 1)
          => (db' = db /\ DB_FILE' = DB_FILE /\ pc' = "idle")]_vars

\* a delete has just been refused on a store of one scenario
C1_Witness ==
  /\ session = "ready"
  /\ Len(db.scenarios) = 1
  /\ result.msg = "warning"

\* C2: the selected name is always a key of the scenario mapping - in the
\* store load_db returns and after every select, create, duplicate and
\* delete, in any order.
C2_SelectedResolves ==
  session = "ready" => DictHas(db.scenarios, db.selected)

\* the file's "selected" named no scenario of its two; one of them has since
\* been deleted and the save of the remaining store is starting
C2_Witness ==
  /\ session = "ready"
  /\ DB_FILE.doc.scen.kind = "dict"
  /\ DB_FILE.doc.sel = SelStr("Z")
  /\ Len(DB_FILE.doc.scen.map) = 2
  /\ pc = "mkdir"
  /\ Len(db.scenarios) = 1
  /\ db.selected = db.scenarios[1].k

\* a file that is all there: absent, or with every piece of its document
Complete(f) == f.doc.kind = "missing" \/ f.written = NChunks

\* C7: at every point of a save_db - whatever step it is at, fails at or the
\* process dies at - DB_FILE holds the whole previous document or the whole
\* new one, never a part of one.
C7_SaveAtomic ==
  /\ Complete(DB_FILE)
  /\ pc # "idle" => DB_FILE \in {call.prev, MkFile(SavedDoc(call.db), NChunks)}

\* json.dump is half way through the temporary file and DB_FILE still holds
\* the previous document, which differs from the one being written
C7_Witness ==
  /\ pc = "dump"
  /\ tmp.exists /\ tmp.written = 1
  /\ DB_FILE = call.prev
  /\ DB_FILE # MkFile(SavedDoc(call.db), NChunks)

\* C8: once save_db has returned - after a success or after a failure of any
\* of its steps - the temporary file it created is gone: renamed onto DB_FILE
\* or removed.
C8_NoTempLeftBehind ==
  (pc = "idle" /\ result.ret # "none") => ~tmp.exists

\* C9: a save_db that could not write or rename ends in an explicit failure
\* its caller sees (it does not return as a successful save does), and the
\* in-memory store is as it was when save_db was entered.
C9_FailureSurfaced ==
  /\ (pc = "idle" /\ result.outcome = "failed") => result.ret = "raised"
  /\ pc # "idle" => db = call.db

\* ------------------------------------------------------------------------
\* Excel export / import.  Here a scenario's field groups have structure:
\*   - a table is a sequence of rows [name, value]; value is a cell that is
\*     a number or not ([num, n]); a recipe line is
\*     [Receita_ID, Insumo, Qtd, Custo_Unit, Custo_Total]
\*   - mix / premissas / financiamento map a key to [isDict, v, sub]: a
\*     scalar v, or a nested map sub from keys to numbers
\*   - keys of these maps are sequences of characters, so that "::" can be
\*     written into a key and searched for
\* A sheet holds the records handed to to_excel and is read back as
\* written: the file encoding is the spreadsheet library's.
\* ------------------------------------------------------------------------
PlainTables ==
  {"capex_db", "opex_outros_db", "funcionarios_db", "insumos_db",
   "receitas_header", "embalagens_db", "precos_sku"}
KvGroups == {"mix", "premissas", "financiamento"}

SheetNames ==
  {"CAPEX", "OPEX_Outros", "Funcionarios", "Insumos", "Receitas_Header",
   "Receitas_Detalhe", "Embalagens", "Precos_SKU", "Mix_Demanda", "Premissas",
   "Financiamento"}

\* the sheet each field group is written to and read from
SheetOf(group) ==
  CASE group = "capex_db" -> "CAPEX"
    [] group = "opex_outros_db" -> "OPEX_Outros"
    [] group = "funcionarios_db" -> "Funcionarios"
    [] group = "insumos_db" -> "Insumos"
    [] group = "receitas_header" -> "Receitas_Header"
    [] group = "receitas_detalhe" -> "Receitas_Detalhe"
    [] group = "embalagens_db" -> "Embalagens"
    [] group = "precos_sku" -> "Precos_SKU"
    [] group = "mix" -> "Mix_Demanda"
    [] group = "premissas" -> "Premissas"
    [] OTHER -> "Financiamento"

Cell(n) == [num |-> TRUE, n |-> n]
BadCell == [num |-> FALSE, n |-> 0]

\* pd.to_numeric(errors="coerce").fillna(0.0)
to_numeric(c) == IF c.num THEN c ELSE Cell(0)

\* _clean_numeric on the numeric column of a table
clean_numeric(rows) == [i \in 1..Len(rows) |-> [rows[i] EXCEPT !.value = to_numeric(@)]]

\* the stored Custo_Total kept as it is
clean_lines_keepsTotal(rows) ==
  [i \in 1..Len(rows) |->
     [rows[i] EXCEPT !.Qtd = to_numeric(@), !.Custo_Unit = to_numeric(@),
                     !.Custo_Total = to_numeric(@)]]

\* _clean_numeric on Qtd and Custo_Unit, then Custo_Total = Qtd * Custo_Unit
clean_lines(rows) ==
  [i \in 1..Len(rows) |->
     LET q == to_numeric(rows[i].Qtd)
         u == to_numeric(rows[i].Custo_Unit)
     IN  [rows[i] EXCEPT !.Qtd = q, !.Custo_Unit = u, !.Custo_Total = Cell(q.n * u.n)]]

\* _clean_numeric on Receita_ID, as scenario_dfs does before the totals
clean_ids(rows) == [i \in 1..Len(rows) |-> [rows[i] EXCEPT !.Receita_ID = to_numeric(@)]]

Scalar(v) == [isDict |-> FALSE, v |-> v, sub |-> EmptyFields]
Nested(sub) == [isDict |-> TRUE, v |-> 0, sub |-> sub]

\* Python truthiness of a dict
NonEmptyDict(d) == DOMAIN d # {}

\* scenario_dfs: the frames and maps of a scenario
scenario_dfs(sc) ==
  [k \in CurrentKeys |->
     IF k = "receitas_detalhe" THEN clean_lines(clean_ids(sc[k]))
     ELSE IF k \in PlainTables THEN clean_numeric(sc[k])
     ELSE IF NonEmptyDict(sc[k]) THEN sc[k] ELSE default_scenario[k]]

\* the elements of a finite set, in some order
RECURSIVE SeqOf(_)
SeqOf(S) == IF S = {} THEN <<>> ELSE LET x == CHOOSE y \in S : TRUE IN <<x>> \o SeqOf(S \ {x})

Sep == <<":", ":">>

\* mix_rows: a nested map is flattened to "k::kk" rows
RECURSIVE MixRows(_, _)
MixRows(m, keys) ==
  IF keys = <<>> THEN <<>>
  ELSE LET k == Head(keys)
           rows == IF m[k].isDict
                   THEN LET subkeys == SeqOf(DOMAIN m[k].sub)
                        IN  [j \in 1..Len(subkeys) |->
                               [Chave |-> k \o Sep \o subkeys[j], Valor |-> m[k].sub[subkeys[j]]]]
                   ELSE <<[Chave |-> k, Valor |-> m[k].v]>>
       IN  rows \o MixRows(m, Tail(keys))

\* prem_rows / fin_rows: one row per key
KvRows(m) ==
  LET keys == SeqOf(DOMAIN m)
  IN  [j \in 1..Len(keys) |-> [Chave |-> keys[j], Valor |-> m[keys[j]].v]]

\* scenario_to_excel_bytes: the sheets of the workbook
scenario_to_excel_bytes(sc) ==
  LET d == scenario_dfs(sc)
  IN  [sheet \in SheetNames |->
         LET group == CHOOSE g \in CurrentKeys : SheetOf(g) = sheet
         IN  IF group = "mix" THEN MixRows(d[group], SeqOf(DOMAIN d[group]))
             ELSE IF group \in KvGroups THEN KvRows(d[group])
             ELSE d[group]]

\* read_sheet: an empty frame when the workbook has no such sheet
read_sheet(xls, name) == IF name \in DOMAIN xls THEN xls[name] ELSE <<>>

\* "::" in k, and k.split("::", 1)
HasSep(k) == \E i \in 1..(Len(k) - 1) : k[i] = ":" /\ k[i + 1] = ":"
SepAt(k) ==
  CHOOSE i \in 1..(Len(k) - 1) :
    /\ k[i] = ":" /\ k[i + 1] = ":"
    /\ \A j \in 1..(i - 1) : ~(k[j] = ":" /\ k[j + 1] = ":")
SplitBase(k) == SubSeq(k, 1, SepAt(k) - 1)
SplitSub(k) == SubSeq(k, SepAt(k) + 2, Len(k))

\* kv_sheet_to_dict: the loop over the rows, out being the dict so far
RECURSIVE KvFold(_, _)
KvFold(rows, out) ==
  IF rows = <<>> THEN out
  ELSE LET k == Head(rows).Chave
           v == Head(rows).Valor
       IN  IF HasSep(k)
           THEN LET base == SplitBase(k)
                    cur  == IF base \in DOMAIN out THEN out[base] ELSE Nested(EmptyFields)
                IN  KvFold(Tail(rows),
                           FieldSet(out, base, [cur EXCEPT !.sub = FieldSet(@, SplitSub(k), v)]))
           ELSE KvFold(Tail(rows), FieldSet(out, k, Scalar(v)))

kv_sheet_to_dict(rows) == IF rows = <<>> THEN EmptyFields ELSE KvFold(rows, EmptyFields)

\* a or b or c on dicts
FirstNonEmpty(a, b, c) == IF NonEmptyDict(a) THEN a ELSE IF NonEmptyDict(b) THEN b ELSE c

DIST == <<"D">>

\* import_excel_apply, up to persist_dfs: the scenario it stores
import_excel_apply(xls, sc) ==
  LET mix0 == FirstNonEmpty(kv_sheet_to_dict(read_sheet(xls, "Mix_Demanda")),
                            sc["mix"], default_scenario["mix"])
      \* float(v) of every value of the nested distribution
      mix  == IF DIST \in DOMAIN mix0 /\ mix0[DIST].isDict
              THEN [mix0 EXCEPT ![DIST] = Nested([kk \in DOMAIN mix0[DIST].sub |-> mix0[DIST].sub[kk]])]
              ELSE mix0
      table(g) == IF read_sheet(xls, SheetOf(g)) # <<>> THEN read_sheet(xls, SheetOf(g)) ELSE sc[g]
  IN  [k \in CurrentKeys |->
         IF k = "mix" THEN mix
         ELSE IF k \in KvGroups
              THEN FirstNonEmpty(kv_sheet_to_dict(read_sheet(xls, SheetOf(k))),
                                 sc[k], default_scenario[k])
         ELSE IF k = "receitas_detalhe" THEN clean_lines(table(k))
         ELSE table(k)]

\* get_scenario / put_scenario on a store
get_scenario(store) ==
  IF DictHas(store.scenarios, get_scenario_name(store))
  THEN DictGet(store.scenarios, get_scenario_name(store))
  ELSE default_scenario
put_scenario(store, name, data) == [store EXCEPT !.scenarios = DictSet(@, name, data)]

\* the download button: the workbook of the selected scenario
ExportClick ==
  /\ Idle
  /\ xl.phase = "none"
  /\ xl' = [phase |-> "exported", sheets |-> scenario_to_excel_bytes(get_scenario(db)),
            src |-> get_scenario(db)]
  /\ UNCHANGED <<DB_FILE, db, session, saveVars, view>>

\* btn_apply_import with that workbook uploaded: import_excel_apply,
\* persist_dfs and save_db
ImportClick ==
  /\ Idle
  /\ xl.phase = "exported"
  /\ db' = put_scenario(db, get_scenario_name(db), import_excel_apply(xl.sheets, get_scenario(db)))
  /\ EnterSave(db')
  /\ xl' = [xl EXCEPT !.phase = "imported"]
  /\ UNCHANGED <<DB_FILE, session, view>>

\* the scenarios the export / import model starts from
InnerKeys == {<<"a">>, <<"b", ":", ":", "c">>}
Percents == {0, 45}
MixMaps ==
  {[k \in {<<"V">>, DIST} |-> IF k = DIST THEN Nested(sub) ELSE Scalar(2000)] :
     sub \in UNION {[K -> Percents] : K \in SUBSET InnerKeys}}
OneRow == <<[name |-> "row", value |-> Cell(7)]>>
LineRows ==
  {<<>>} \cup {<<[Receita_ID |-> Cell(1), Insumo |-> "malt", Qtd |-> Cell(2),
                  Custo_Unit |-> Cell(3), Custo_Total |-> Cell(t)]>> : t \in {6, 0}}
ExcelScenarios ==
  {[k \in CurrentKeys |->
      CASE k = "mix" -> m
        [] k = "premissas" -> [x \in {<<"G">>} |-> Scalar(1)]
        [] k = "financiamento" -> [x \in {<<"P">>} |-> Scalar(48)]
        [] k = "receitas_detalhe" -> lines
        [] k = "capex_db" -> capex
        [] OTHER -> OneRow] :
     m \in MixMaps, lines \in LineRows,
     capex \in {<<>>, OneRow, <<[name |-> "row", value |-> BadCell]>>}}

InitExcel ==
  /\ \E sc \in ExcelScenarios :
       db = MkDb(<<[k |-> DEFAULT_SCENARIO_NAME, v |-> sc]>>, DEFAULT_SCENARIO_NAME)
  /\ DB_FILE = MkFile(SavedDoc(db), NChunks)
  /\ session = "ready"
  /\ pc = "idle" /\ tmp = NoTmp /\ failures = 0 /\ result = NoResult
  /\ call = NoCall
  /\ xl = NoSheets
  /\ view = NoView

NextExcel ==
  \/ ExportClick
  \/ ImportClick
  \/ SaveMkdir
  \/ SaveMktemp
  \/ SaveDump
  \/ SaveClose
  \/ SaveReplace
  \/ SaveToast
  \/ SaveFail

SpecExcel == InitExcel /\ [][NextExcel]_vars

\* a scenario as the program itself stores it: what scenario_dfs makes of it
Valid(sc) == scenario_dfs(sc) = sc

\* C10: for every valid scenario S, importing into S the workbook exported
\* from S leaves a scenario equal to S in every field group, the nested
\* distribution map with exactly its keys and values included.
C10_RoundTrip ==
  (xl.phase = "imported" /\ Valid(xl.src)) => get_scenario(db) = xl.src

\* ------------------------------------------------------------------------
\* Import of an uploaded workbook.  A workbook maps the sheets it has to
\* their rows; a sheet it lacks is read as an empty frame.
\* ------------------------------------------------------------------------
NewCapex == <<[name |-> "new", value |-> Cell(9)]>>
NewLines ==
  <<[Receita_ID |-> Cell(1), Insumo |-> "hops", Qtd |-> Cell(4),
     Custo_Unit |-> Cell(5), Custo_Total |-> Cell(20)]>>
NewMix == <<[Chave |-> <<"V">>, Valor |-> 900], [Chave |-> DIST \o Sep \o <<"a">>, Valor |-> 100]>>

\* the workbooks uploaded: each probed sheet absent, empty or filled
SheetContents(sheet) ==
  CASE sheet = "CAPEX" -> {<<>>, NewCapex}
    [] sheet = "Receitas_Detalhe" -> {<<>>, NewLines}
    [] OTHER -> {<<>>, NewMix}
RECURSIVE WorkbooksOver(_)
WorkbooksOver(sheets) ==
  IF sheets = {} THEN {EmptyFields}
  ELSE LET sheet == CHOOSE x \in sheets : TRUE
       IN  {FieldSet(wb, sheet, rows) :
              wb \in WorkbooksOver(sheets \ {sheet}), rows \in SheetContents(sheet)}
Workbooks ==
  UNION {WorkbooksOver(K) : K \in SUBSET {"CAPEX", "Receitas_Detalhe", "Mix_Demanda"}}

\* btn_apply_import with a workbook uploaded: import_excel_apply,
\* persist_dfs and save_db
ImportUpload ==
  /\ Idle
  /\ xl.phase = "none"
  /\ \E wb \in Workbooks :
       /\ xl' = [phase |-> "uploaded", sheets |-> wb, src |-> get_scenario(db)]
       /\ db' = put_scenario(db, get_scenario_name(db), import_excel_apply(wb, get_scenario(db)))
  /\ EnterSave(db')
  /\ UNCHANGED <<DB_FILE, session, view>>

NextImport ==
  \/ ImportUpload
  \/ SaveMkdir
  \/ SaveMktemp
  \/ SaveDump
  \/ SaveClose
  \/ SaveReplace
  \/ SaveToast
  \/ SaveFail

SpecImport == InitExcel /\ [][NextImport]_vars

\* the field group a sheet's rows spell out
GroupOfRows(group, rows) == IF group \in KvGroups THEN kv_sheet_to_dict(rows) ELSE rows

\* a field group with its derived fields (the recipe line totals) recomputed
Derived(group, v) == IF group = "receitas_detalhe" THEN clean_lines(v) ELSE v

\* C11: after an import every field group of the target scenario equals the
\* group the workbook supplies, whatever its content (an empty collection
\* included), and equals the pre-import value only for a group the workbook
\* does not supply (derived line totals recomputed in both cases).
C11_ReplacedWholesale ==
  xl.phase = "uploaded" =>
    \A group \in CurrentKeys :
      get_scenario(db)[group] =
        IF SheetOf(group) \in DOMAIN xl.sheets
        THEN Derived(group, GroupOfRows(group, xl.sheets[SheetOf(group)]))
        ELSE Derived(group, xl.src[group])

\* ------------------------------------------------------------------------
\* The calculation engine.  Python floats are modelled as exact rationals
\* [n, d] in lowest terms with d > 0, so that equal values are equal records.
\* ------------------------------------------------------------------------
MaxHeaders == 2
MaxLines == 2

Abs(x) == IF x < 0 THEN -x ELSE x
RECURSIVE GCD(_, _)
GCD(a, b) == IF b = 0 THEN a ELSE GCD(b, a % b)
Rat(n, d) ==
  LET g == GCD(Abs(n), Abs(d))
      sgn == IF d < 0 THEN -1 ELSE 1
  IN  [n |-> sgn * (n \div g), d |-> sgn * (d \div g)]
RInt(n) == [n |-> n, d |-> 1]
\* sums over the least common denominator and products reduced crosswise
RAdd(a, b) ==
  LET g == GCD(a.d, b.d)
  IN  Rat(a.n * (b.d \div g) + b.n * (a.d \div g), (a.d \div g) * b.d)
RNeg(a) == [n |-> -a.n, d |-> a.d]
RSub(a, b) == RAdd(a, RNeg(b))
RMul(a, b) ==
  LET g1 == GCD(Abs(a.n), b.d)
      g2 == GCD(Abs(b.n), a.d)
  IN  Rat((a.n \div g1) * (b.n \div g2), (a.d \div g2) * (b.d \div g1))
RInv(a) == IF a.n < 0 THEN [n |-> -a.d, d |-> -a.n] ELSE [n |-> a.d, d |-> a.n]
RDiv(a, b) == RMul(a, RInv(b))
RPos(a) == a.n > 0
RLe0(a) == a.n <= 0

\* the store-free part of a state: the engine runs on frames, not on files
NoStore ==
  /\ DB_FILE = NoCall.prev
  /\ db = NoDb
  /\ session = "none"
  /\ pc = "idle" /\ tmp = NoTmp /\ failures = 0 /\ result = NoResult
  /\ call = NoCall
  /\ xl = NoSheets
storeVars == <<DB_FILE, db, session, saveVars, xl>>

GipKeys == {"GIP Químicos (R$/L)", "GIP Energia (R$/L)", "GIP Água (R$/L)", "GIP CO2 (R$/L)"}

\* prem.get(key, 0.0)
PremGet(prem, key) == IF key \in DOMAIN prem THEN prem[key] ELSE 0

RECURSIVE SumOver(_, _)
SumOver(f, keys) ==
  IF keys = {} THEN 0
  ELSE LET k == CHOOSE x \in keys : TRUE IN f[k] + SumOver(f, keys \ {k})

calc_gip_total(prem) == SumOver([k \in GipKeys |-> PremGet(prem, k)], GipKeys)

\* df[df[col] == x]: the rows that match, in frame order
RECURSIVE Filter(_, _, _)
Filter(rows, col, x) ==
  IF rows = <<>> THEN <<>>
  ELSE (IF Head(rows)[col] = x THEN <<Head(rows)>> ELSE <<>>) \o Filter(Tail(rows), col, x)

\* det["Custo_Total"].sum()
RECURSIVE SumTotals(_)
SumTotals(det) == IF det = <<>> THEN 0 ELSE Head(det).Custo_Total.n + SumTotals(Tail(det))

\* the fallback taking the last header instead of the first
pick_recipe_name_last(receitas_header_df, recipe_name) ==
  LET names == {receitas_header_df[i].Nome : i \in 1..Len(receitas_header_df)}
  IN  IF recipe_name = "" \/ recipe_name \notin names
      THEN receitas_header_df[Len(receitas_header_df)].Nome ELSE recipe_name

\* if not recipe_name or recipe_name not in names: the first header's name;
\* recipe_name "" also stands for None
pick_recipe_name(receitas_header_df, recipe_name) ==
  LET names == {receitas_header_df[i].Nome : i \in 1..Len(receitas_header_df)}
  IN  IF recipe_name = "" \/ recipe_name \notin names
      THEN receitas_header_df[1].Nome ELSE recipe_name

\* recipe_cost_per_liter on the frames of scenario_dfs
recipe_cost_per_liter(receitas_header_df, receitas_det_df, prem, recipe_name) ==
  LET gip == calc_gip_total(prem)
  IN  IF receitas_header_df = <<>> THEN RInt(gip)
      ELSE LET name  == pick_recipe_name(receitas_header_df, recipe_name)
               row   == Filter(receitas_header_df, "Nome", name)[1]
               rid   == row.ID
               vol   == row.Volume
               det   == Filter(receitas_det_df, "Receita_ID", Cell(rid))
           IN  IF det = <<>> \/ vol <= 0 THEN RInt(gip)
               ELSE RAdd(Rat(SumTotals(det), vol), RInt(gip))

\* the stored recipes the costing model starts from
HeaderRows ==
  {[ID |-> 1, Nome |-> "IPA", Volume |-> 10], [ID |-> 2, Nome |-> "Stout", Volume |-> 10],
   [ID |-> 2, Nome |-> "IPA", Volume |-> 4], [ID |-> 1, Nome |-> "Stout", Volume |-> 0],
   [ID |-> 2, Nome |-> "Stout", Volume |-> -10]}
StoredLineRows ==
  {[Receita_ID |-> Cell(id), Insumo |-> "malt", Qtd |-> qt[1], Custo_Unit |-> Cell(3),
    Custo_Total |-> Cell(qt[2])] :
     id \in {1, 2}, qt \in {<<Cell(2), 6>>, <<Cell(2), 0>>, <<BadCell, 6>>}}
Prems ==
  {EmptyFields, [k \in GipKeys |-> 1],
   [k \in {"GIP Energia (R$/L)", "Impostos s/ venda (%)"} |-> 10]}
RecipeNames == {"", "Stout", "Porter"}

\* receitas_det_df as scenario_dfs builds it from the stored lines
lines_frame(stored) == scenario_dfs([default_scenario EXCEPT !["receitas_detalhe"] = stored])["receitas_detalhe"]

InitCost ==
  /\ NoStore
  /\ \E rh \in SeqsUpTo(HeaderRows, MaxHeaders), rd \in SeqsUpTo(StoredLineRows, MaxLines),
        prem \in Prems, name \in RecipeNames :
       view = [kind |-> "recipes", rh |-> rh, rd |-> rd, prem |-> prem, name |-> name]

\* a page run: scenario_dfs, then the cost per liter of the base recipe; rd
\* becomes the frame persist_dfs stores at the end of the run
RunCost ==
  /\ view.kind = "recipes"
  /\ view' = [kind |-> "cost", rh |-> view.rh, rd |-> lines_frame(view.rd),
              stored |-> view.rd, prem |-> view.prem, name |-> view.name,
              out |-> recipe_cost_per_liter(view.rh, lines_frame(view.rd), view.prem, view.name)]
  /\ UNCHANGED storeVars

NextCost == RunCost

SpecCost == InitCost /\ [][NextCost]_vars

\* what the reference function is defined over
Indices(seq) == 1..Len(seq)
FirstNamed(rh, name) == CHOOSE i \in Indices(rh) : rh[i].Nome = name /\ \A j \in 1..(i - 1) : rh[j].Nome # name
RECURSIVE SumQtdTimesCost(_, _, _)
SumQtdTimesCost(rd, rid, i) ==
  IF i > Len(rd) THEN 0
  ELSE (IF rd[i].Receita_ID.n = rid THEN rd[i].Qtd.n * rd[i].Custo_Unit.n ELSE 0)
       + SumQtdTimesCost(rd, rid, i + 1)

\* C12: recipeCostPerLiter equals the reference function: g, the sum of the
\* four indirect components, when there is no header; otherwise, for the
\* header with the given name (the first header when the name is empty or
\* not found), (sum over its lines of quantity x unit cost) / batch volume
\* + g, and exactly g when the batch volume is <= 0 or it has no lines.
C12_CostEqualsReference ==
  view.kind = "cost" =>
    LET g == PremGet(view.prem, "GIP Químicos (R$/L)") + PremGet(view.prem, "GIP Energia (R$/L)")
             + PremGet(view.prem, "GIP Água (R$/L)") + PremGet(view.prem, "GIP CO2 (R$/L)")
        rh == view.rh
    IN  IF Len(rh) = 0 THEN view.out = RInt(g)
        ELSE LET found == view.name # "" /\ \E i \in Indices(rh) : rh[i].Nome = view.name
                 h == IF found THEN rh[FirstNamed(rh, view.name)] ELSE rh[1]
                 n == Cardinality({i \in Indices(view.rd) : view.rd[i].Receita_ID.n = h.ID})
             IN  IF h.Volume <= 0 \/ n = 0 THEN view.out = RInt(g)
                 ELSE \* out = sum / volume + g, with no division
                      view.out.n * h.Volume =
                        (SumQtdTimesCost(view.rd, h.ID, 1) + g * h.Volume) * view.out.d

\* a named recipe that is not in the frame falls back to the first header,
\* which has lines and a positive volume
C12_Witness ==
  /\ view.kind = "cost"
  /\ Len(view.rh) = 2 /\ view.name = "Porter"
  /\ view.rh[1].Volume > 0
  /\ RPos(RSub(view.out, RInt(calc_gip_total(view.prem))))
  /\ calc_gip_total(view.prem) > 0

\* the stored lines with other stored totals
TotalChoices == {Cell(99), BadCell}
WithTotals(stored, totals) == [i \in Indices(stored) |-> [stored[i] EXCEPT !.Custo_Total = totals[i]]]

\* C13: line totals are never trusted from storage: a scenario that differs
\* only in its stored line totals gives the same cost per liter and the
\* same persisted line totals, each quantity x unit cost.
C13_TotalsNotTrusted ==
  view.kind = "cost" =>
    /\ \A totals \in [Indices(view.stored) -> TotalChoices] :
         /\ recipe_cost_per_liter(view.rh, lines_frame(WithTotals(view.stored, totals)),
                                  view.prem, view.name) = view.out
         /\ \A i \in Indices(view.stored) :
              lines_frame(WithTotals(view.stored, totals))[i].Custo_Total = view.rd[i].Custo_Total
    /\ \A i \in Indices(view.rd) :
         view.rd[i].Custo_Total = Cell(view.rd[i].Qtd.n * view.rd[i].Custo_Unit.n)

\* a costed recipe whose stored line total was stale
C13_Witness ==
  /\ view.kind = "cost"
  /\ \E i \in Indices(view.stored) :
       /\ view.stored[i].Custo_Total # view.rd[i].Custo_Total
       /\ view.stored[i].Qtd.num
  /\ RPos(RSub(view.out, RInt(calc_gip_total(view.prem))))

\* ------------------------------------------------------------------------
\* normalize_dist.  A value of the distribution is a number, None, NaN, the
\* empty string or a string that is not a number.
\* ------------------------------------------------------------------------
MaxDistKeys == 3

Num(n) == [t |-> "num", n |-> n]
PyNone == [t |-> "none", n |-> 0]
NaN == [t |-> "nan", n |-> 0]
EmptyStr == [t |-> "empty", n |-> 0]
Text == [t |-> "text", n |-> 0]

\* float(v or 0.0) raises ValueError on a string that is not a number
FloatRaises(v) == v.t = "text"

\* max(0.0, float(v or 0.0)): None and "" are falsy, max(0.0, nan) is 0.0
clamp_value(v) == IF v.t = "num" /\ v.n > 0 THEN v.n ELSE 0

\* a share of the total instead of a percentage
rescale_fraction(v, total) == Rat(v, total)

\* (v / s) * 100.0
rescale(v, total) == RMul(Rat(v, total), RInt(100))

\* normalize_dist(dist): raised, or the dict it returns
normalize_dist(dist) ==
  IF \E k \in DOMAIN dist : FloatRaises(dist[k])
  THEN [raised |-> TRUE, out |-> EmptyFields]
  ELSE LET clean == [k \in DOMAIN dist |-> clamp_value(dist[k])]
           total == SumOver(clean, DOMAIN clean)
       IN  IF total <= 0
           THEN [raised |-> FALSE, out |-> [k \in DOMAIN clean |-> RInt(clean[k])]]
           ELSE [raised |-> FALSE, out |-> [k \in DOMAIN clean |-> rescale(clean[k], total)]]

DistKeyPool == <<"Lata 350ml", "Garrafa 600ml", "Growler 1L", "Barril 30L">>
DistKeys == {DistKeyPool[i] : i \in 1..MaxDistKeys}
DistValues == {Num(-5), Num(0), Num(30), Num(45), PyNone, NaN, EmptyStr, Text}
Dists == UNION {[K -> DistValues] : K \in SUBSET DistKeys}

InitNorm ==
  /\ NoStore
  /\ \E dist \in Dists : view = [kind |-> "dist", dist |-> dist]

RunNorm ==
  /\ view.kind = "dist"
  /\ view' = [kind |-> "norm", dist |-> view.dist, res |-> normalize_dist(view.dist)]
  /\ UNCHANGED storeVars

NextNorm == RunNorm

SpecNorm == InitNorm /\ [][NextNorm]_vars

\* the clamp of the definition: negative, missing and invalid count as 0
Clamped(v) == IF v.t = "num" THEN (IF v.n < 0 THEN 0 ELSE v.n) ELSE 0
RECURSIVE ClampedTotal(_, _)
ClampedTotal(dist, keys) ==
  IF keys = {} THEN 0
  ELSE LET k == CHOOSE x \in keys : TRUE IN Clamped(dist[k]) + ClampedTotal(dist, keys \ {k})
RECURSIVE RSum(_, _)
RSum(f, keys) ==
  IF keys = {} THEN RInt(0)
  ELSE LET k == CHOOSE x \in keys : TRUE IN RAdd(f[k], RSum(f, keys \ {k}))

\* C14: when the clamped values have a positive total the output sums to
\* 100 and every pair of keys keeps its ratio, out[k] * clamp(in[j]) =
\* out[j] * clamp(in[k]); when the clamped total is <= 0 the clamped map is
\* returned unchanged.
C14_NormalizeSumsTo100 ==
  (view.kind = "norm" /\ ~view.res.raised) =>
    LET dist == view.dist
        out == view.res.out
    IN  /\ DOMAIN out = DOMAIN dist
        /\ IF ClampedTotal(dist, DOMAIN dist) > 0
           THEN /\ RSum(out, DOMAIN out) = RInt(100)
                /\ \A j, k \in DOMAIN dist :
                     RMul(out[k], RInt(Clamped(dist[j]))) = RMul(out[j], RInt(Clamped(dist[k])))
           ELSE \A k \in DOMAIN dist : out[k] = RInt(Clamped(dist[k]))

\* two different positive shares and a negative one, rescaled
C14_Witness ==
  /\ view.kind = "norm" /\ ~view.res.raised
  /\ \E j, k, l \in DOMAIN view.dist :
       /\ view.dist[j] = Num(30) /\ view.dist[k] = Num(45) /\ view.dist[l] = Num(-5)
       /\ view.res.out[j] = Rat(100 * 30, 75)
       /\ view.res.out[l] = RInt(0)

\* C15: normalize clamps instead of raising: for every input map each
\* negative, missing (null) and invalid (non-numeric) value counts as 0 in
\* the result, which has the same key set, and nothing is raised.
C15_ClampsNeverRaises ==
  view.kind = "norm" =>
    /\ ~view.res.raised
    /\ DOMAIN view.res.out = DOMAIN view.dist
    /\ \A k \in DOMAIN view.dist :
         (view.dist[k].t # "num" \/ view.dist[k].n < 0) => view.res.out[k] = RInt(0)

\* ------------------------------------------------------------------------
\* compute_monthly_dre.  emb_df rows are [Embalagem, Volume, Custo], the
\* volume a rational; precos_df rows are [SKU, Canal, Preco].
\* ------------------------------------------------------------------------
\* get_price: 0.0 when no row matches, else the first match
get_price(precos_df, sku, canal) ==
  LET m == Filter(Filter(precos_df, "SKU", sku), "Canal", canal)
  IN  IF m = <<>> THEN RInt(0) ELSE RInt(m[1].Preco)

\* get_pack_cost: (0.0, 0.0) when no row matches, else the first match
get_pack_cost(emb_df, embalagem) ==
  LET m == Filter(emb_df, "Embalagem", embalagem)
  IN  IF m = <<>> THEN <<RInt(0), RInt(0)>> ELSE <<m[1].Volume, RInt(m[1].Custo)>>

Max0(x) == IF x < 0 THEN 0 ELSE x

\* the distribution taken as stored, clamped but not rescaled
dist_emb_raw(dist_emb_percent) == [k \in DOMAIN dist_emb_percent |-> RInt(clamp_value(dist_emb_percent[k]))]

\* dist_emb = normalize_dist(dist_emb_percent)
dist_emb_of(dist_emb_percent) == normalize_dist(dist_emb_percent).out

\* the packaging loop: receita_emb and custo_embalagem_total over the keys
RECURSIVE PackLoop(_, _, _, _, _)
PackLoop(keys, dist_emb, vol_vemb, emb_df, precos_df) ==
  IF keys = <<>> THEN [receita_emb |-> RInt(0), custo_embalagem_total |-> RInt(0)]
  ELSE LET emb_name == Head(keys)
           rest == PackLoop(Tail(keys), dist_emb, vol_vemb, emb_df, precos_df)
           vol_ == RMul(vol_vemb, RDiv(dist_emb[emb_name], RInt(100)))
           v_l  == get_pack_cost(emb_df, emb_name)[1]
           c_u  == get_pack_cost(emb_df, emb_name)[2]
       IN  IF RLe0(v_l) THEN rest
           ELSE LET unidades == RDiv(vol_, v_l)
                    preco_u == get_price(precos_df, emb_name, "Varejo")
                IN  [receita_emb |-> RAdd(rest.receita_emb, RMul(unidades, preco_u)),
                     custo_embalagem_total |-> RAdd(rest.custo_embalagem_total, RMul(unidades, c_u))]

\* the total without the cups
cmv_total_noCups(cmv_liquido, custo_embalagem_total, custo_copo_total) ==
  RAdd(cmv_liquido, custo_embalagem_total)

\* cmv = cmv_liquido + custo_embalagem_total + custo_copo_total
cmv_total(cmv_liquido, custo_embalagem_total, custo_copo_total) ==
  RAdd(RAdd(cmv_liquido, custo_embalagem_total), custo_copo_total)

DefaultCupVolume == Rat(473, 1000)

compute_monthly_dre(in) ==
  LET volume_mes_l == RInt(Max0(in.vol))
      impostos_pct == RDiv(RInt(PremGet(in.prem, "Impostos s/ venda (%)")), RInt(100))
      custo_liquido_l == recipe_cost_per_liter(in.rh, in.rd, in.prem, in.name)
      vol_tap == RMul(volume_mes_l, RDiv(RInt(in.tap), RInt(100)))
      vol_vch == RMul(volume_mes_l, RDiv(RInt(in.vch), RInt(100)))
      vol_vemb == RMul(volume_mes_l, RDiv(RInt(in.vemb), RInt(100)))
      preco_chope_l == get_price(in.precos, "Chope (R$/L)", "Varejo")
      preco_copo == get_price(in.precos, "Copo Taproom", "Taproom")
      copo == get_pack_cost(in.emb, "Copo Taproom")
      copo_vol_l == IF copo[1].n = 0 THEN DefaultCupVolume ELSE copo[1]
      cups == IF RPos(copo_vol_l) THEN RDiv(vol_tap, copo_vol_l) ELSE RInt(0)
      receita_tap == RMul(cups, preco_copo)
      custo_copo_total == RMul(cups, copo[2])
      receita_vch == RMul(vol_vch, preco_chope_l)
      dist_emb == dist_emb_of(in.dist)
      pack == PackLoop(SeqOf(DOMAIN dist_emb), dist_emb, vol_vemb, in.emb, in.precos)
      receita_bruta == RAdd(RAdd(receita_tap, receita_vch), pack.receita_emb)
      impostos == RMul(receita_bruta, impostos_pct)
      cmv_liquido == RMul(volume_mes_l, custo_liquido_l)
      cmv == cmv_total(cmv_liquido, pack.custo_embalagem_total, custo_copo_total)
      margem == RSub(RSub(receita_bruta, impostos), cmv)
  IN  [receita_bruta |-> receita_bruta, impostos |-> impostos, cmv_liquido |-> cmv_liquido,
       custo_embalagem_total |-> pack.custo_embalagem_total,
       custo_copo_total |-> custo_copo_total, cmv |-> cmv, margem |-> margem,
       cups |-> cups, vol_vch |-> vol_vch, vol_vemb |-> vol_vemb]

\* the inputs the Mix and Financeiro tabs hand to compute_monthly_dre
Volumes == {100, 200}
MixTriples == {<<30, 25, 45>>, <<100, 0, 0>>, <<0, 0, 100>>, <<70, 60, 0>>}
PackNames == {"Lata 350ml", "Growler 1L", "Barril 30L"}
PackDists == UNION {[K -> {Num(0), Num(30), Num(50)}] : K \in SUBSET PackNames}
EmbRow(name, volume, custo) == [Embalagem |-> name, Volume |-> volume, Custo |-> custo]
CupRows ==
  {<<>>, <<EmbRow("Copo Taproom", RInt(0), 1)>>, <<EmbRow("Copo Taproom", Rat(-1, 2), 1)>>,
   <<EmbRow("Copo Taproom", Rat(1, 2), 1)>>}
CanRows ==
  {<<>>, <<EmbRow("Lata 350ml", Rat(1, 2), 2)>>, <<EmbRow("Lata 350ml", RInt(0), 2)>>,
   <<EmbRow("Lata 350ml", RInt(-1), 2)>>,
   <<EmbRow("Lata 350ml", Rat(1, 2), 2), EmbRow("Lata 350ml", RInt(1), 3)>>}
EmbFrames == {cup \o can \o <<EmbRow("Growler 1L", RInt(1), 5)>> : cup \in CupRows, can \in CanRows}
PriceRow(sku, canal, preco) == [SKU |-> sku, Canal |-> canal, Preco |-> preco]
PriceFrames ==
  {<<>>,
   <<PriceRow("Chope (R$/L)", "Varejo", 20), PriceRow("Copo Taproom", "Taproom", 12),
     PriceRow("Lata 350ml", "Taproom", 99), PriceRow("Lata 350ml", "Varejo", 8),
     PriceRow("Growler 1L", "Varejo", 30), PriceRow("Lata 350ml", "Varejo", 9)>>}
DrePrems == {EmptyFields, [k \in GipKeys \cup {"Impostos s/ venda (%)"} |-> IF k \in GipKeys THEN 1 ELSE 10]}
DreRecipes ==
  {[rh |-> <<>>, rd |-> <<>>, name |-> ""],
   [rh |-> <<[ID |-> 1, Nome |-> "IPA", Volume |-> 10]>>,
    rd |-> lines_frame(<<[Receita_ID |-> Cell(1), Insumo |-> "malt", Qtd |-> Cell(2),
                          Custo_Unit |-> Cell(3), Custo_Total |-> Cell(0)]>>),
    name |-> "IPA"]}

InitDre ==
  /\ NoStore
  /\ \E vol \in Volumes, mix \in MixTriples, dist \in PackDists, emb \in EmbFrames,
        precos \in PriceFrames, prem \in DrePrems, rec \in DreRecipes :
       view = [kind |-> "inputs", vol |-> vol, tap |-> mix[1], vch |-> mix[2], vemb |-> mix[3],
               dist |-> dist, name |-> rec.name, rh |-> rec.rh, rd |-> rec.rd, emb |-> emb,
               precos |-> precos, prem |-> prem]

RunDre ==
  /\ view.kind = "inputs"
  /\ view' = [kind |-> "dre", in |-> view, out |-> compute_monthly_dre(view)]
  /\ UNCHANGED storeVars

NextDre == RunDre

SpecDre == InitDre /\ [][NextDre]_vars

\* what the allocation is defined over: the first row of a name, if any
HasRow(rows, col, x) == \E i \in Indices(rows) : rows[i][col] = x
FirstRow(rows, col, x) ==
  rows[CHOOSE i \in Indices(rows) : rows[i][col] = x /\ \A j \in 1..(i - 1) : rows[j][col] # x]
RetailPrice(precos, sku) ==
  LET retail == SelectSeq(precos, LAMBDA r : r.Canal = "Varejo")
  IN  IF HasRow(retail, "SKU", sku) THEN FirstRow(retail, "SKU", sku).Preco ELSE 0
Share(dist, k) ==
  IF ClampedTotal(dist, DOMAIN dist) > 0
  THEN Rat(100 * Clamped(dist[k]), ClampedTotal(dist, DOMAIN dist))
  ELSE RInt(Clamped(dist[k]))
PackagedLiters(in) == Rat(in.vol * in.vemb, 100)
\* units of a packaging type: allotted liters / volume per unit, nothing
\* for a type whose volume per unit is absent or not positive
Units(in, k) ==
  IF HasRow(in.emb, "Embalagem", k) /\ RPos(FirstRow(in.emb, "Embalagem", k).Volume)
  THEN RDiv(RMul(PackagedLiters(in), RDiv(Share(in.dist, k), RInt(100))),
            FirstRow(in.emb, "Embalagem", k).Volume)
  ELSE RInt(0)
PackagedRevenue(in) ==
  RSum([k \in DOMAIN in.dist |-> RMul(Units(in, k), RInt(RetailPrice(in.precos, k)))], DOMAIN in.dist)
PackagingCost(in) ==
  RSum([k \in DOMAIN in.dist |->
          IF HasRow(in.emb, "Embalagem", k)
          THEN RMul(Units(in, k), RInt(FirstRow(in.emb, "Embalagem", k).Custo))
          ELSE RInt(0)], DOMAIN in.dist)
TaproomPrice(in) ==
  LET tap == SelectSeq(in.precos, LAMBDA r : r.Canal = "Taproom")
  IN  IF HasRow(tap, "SKU", "Copo Taproom") THEN FirstRow(tap, "SKU", "Copo Taproom").Preco ELSE 0
DraftPrice(in) == RetailPrice(in.precos, "Chope (R$/L)")

\* C16: the three channel volumes are total volume x stored percent / 100,
\* not renormalized; the packaged volume is split by the normalized
\* distribution; a packaging type with positive volume per unit gives
\* units = liters / volume per unit, units x retail price of revenue and
\* units x unit cost of packaging cost; the other types give nothing.
C16_VolumeAllocation ==
  view.kind = "dre" =>
    LET in == view.in
        out == view.out
        cup == IF HasRow(in.emb, "Embalagem", "Copo Taproom")
               THEN FirstRow(in.emb, "Embalagem", "Copo Taproom").Volume ELSE RInt(0)
    IN  /\ out.vol_vch = Rat(in.vol * in.vch, 100)
        /\ out.vol_vemb = Rat(in.vol * in.vemb, 100)
        \* the Taproom volume, seen through the cups it fills
        /\ ~(cup.n < 0) =>
             RMul(out.cups, IF cup.n = 0 THEN DefaultCupVolume ELSE cup) = Rat(in.vol * in.tap, 100)
        /\ out.custo_embalagem_total = PackagingCost(in)
        /\ out.receita_bruta =
             RAdd(RAdd(RMul(out.cups, RInt(TaproomPrice(in))),
                       RMul(out.vol_vch, RInt(DraftPrice(in)))),
                  PackagedRevenue(in))

\* packaged volume split over unequal shares that do not sum to 100, one
\* type without a packaging row, one with a positive volume per unit
C16_Witness ==
  /\ view.kind = "dre"
  /\ view.in.vemb > 0 /\ view.in.tap > 0
  /\ DOMAIN view.in.dist = PackNames
  /\ view.in.dist["Lata 350ml"] = Num(30) /\ view.in.dist["Growler 1L"] = Num(50)
  /\ view.in.dist["Barril 30L"] = Num(30)
  /\ RPos(view.out.custo_embalagem_total)
  /\ RPos(PackagedRevenue(view.in))

\* C17: the cup count is Taproom volume / cup volume, the cup volume being
\* the Taproom packaging's volume per unit when positive and the default
\* 0.473 L when that packaging is absent or its volume is zero or negative.
C17_CupConversion ==
  view.kind = "dre" =>
    LET in == view.in
        cupVolume ==
          IF HasRow(in.emb, "Embalagem", "Copo Taproom")
             /\ RPos(FirstRow(in.emb, "Embalagem", "Copo Taproom").Volume)
          THEN FirstRow(in.emb, "Embalagem", "Copo Taproom").Volume
          ELSE Rat(473, 1000)
    IN  view.out.cups = RDiv(Rat(in.vol * in.tap, 100), cupVolume)

\* the recipe cost per liter of the inputs
CostPerLiter(in) == recipe_cost_per_liter(in.rh, in.rd, in.prem, in.name)

\* C18: grossRevenue = Taproom revenue + draft volume x draft price +
\* packaged revenue; taxes = grossRevenue x tax percent / 100; cogsLiquid =
\* total volume x recipe cost per liter, whatever the channel mix;
\* cogsTotal = cogsLiquid + packaging cost + cup cost; contributionMargin =
\* grossRevenue - taxes - cogsTotal.
C18_PnLIdentities ==
  view.kind = "dre" =>
    LET in == view.in
        out == view.out
    IN  /\ out.receita_bruta =
             RAdd(RMul(out.cups, RInt(TaproomPrice(in))),
                  RAdd(RMul(out.vol_vch, RInt(DraftPrice(in))), PackagedRevenue(in)))
        /\ RMul(out.impostos, RInt(100)) =
             RMul(out.receita_bruta, RInt(PremGet(in.prem, "Impostos s/ venda (%)")))
        /\ out.cmv_liquido = RMul(RInt(in.vol), CostPerLiter(in))
        /\ out.cmv = RAdd(out.cmv_liquido, RAdd(out.custo_embalagem_total, out.custo_copo_total))
        /\ out.margem = RSub(out.receita_bruta, RAdd(out.impostos, out.cmv))

\* a month with revenue in every channel, taxes and every cost present
C18_Witness ==
  /\ view.kind = "dre"
  /\ view.in.tap > 0 /\ view.in.vch > 0 /\ view.in.vemb > 0
  /\ RPos(view.out.impostos) /\ RPos(view.out.cmv_liquido)
  /\ RPos(view.out.custo_embalagem_total) /\ RPos(view.out.custo_copo_total)
  /\ RPos(PackagedRevenue(view.in))
  /\ view.out.margem # RInt(0)

\* ------------------------------------------------------------------------
\* Payback.  The page draws 84 months; the model draws Horizon months.
\* A series is <<[Mes, Saldo]>>; the payback month is [some, m].
\* ------------------------------------------------------------------------
Horizon == 6

NoMonth == [some |-> FALSE, m |-> 0]
Month(m) == [some |-> TRUE, m |-> m]

\* the balance starting at the investment instead of minus the investment
initial_balance_positive(invest) == invest

\* saldo = [-invest]; acc = -invest
initial_balance(invest) == -invest

\* for m in range(1, months + 1): acc += monthly_cash; saldo.append(acc);
\* if acc >= 0 and pay_m is None: pay_m = m
RECURSIVE PaybackLoop(_, _, _, _, _, _)
PaybackLoop(m, months, acc, monthly_cash, saldo, pay_m) ==
  IF m > months THEN [saldo |-> saldo, pay_m |-> pay_m]
  ELSE LET acc1 == acc + monthly_cash
       IN  PaybackLoop(m + 1, months, acc1, monthly_cash, Append(saldo, acc1),
                       IF acc1 >= 0 /\ ~pay_m.some THEN Month(m) ELSE pay_m)

\* pd.DataFrame({"Mês": list(range(0, months + 1)), "Saldo": saldo})
Frame(saldo) == [i \in 1..Len(saldo) |-> [Mes |-> i - 1, Saldo |-> saldo[i]]]

build_payback_series(invest, monthly_cash, months) ==
  LET r == PaybackLoop(1, months, initial_balance(invest), monthly_cash,
                       <<initial_balance(invest)>>, NoMonth)
  IN  [df |-> Frame(r.saldo), pay_m |-> r.pay_m]

\* the loop of "Payback com dívida": pay = juros_only if m <= carencia else
\* parcela; acc += lucro_operacional - pay
RECURSIVE DebtLoop(_, _, _, _, _, _, _, _)
DebtLoop(m, months, acc, lucro_operacional, juros_only, parcela, carencia, r) ==
  IF m > months THEN r
  ELSE LET pay == IF m <= carencia THEN juros_only ELSE parcela
           acc1 == acc + (lucro_operacional - pay)
       IN  DebtLoop(m + 1, months, acc1, lucro_operacional, juros_only, parcela, carencia,
                    [saldo |-> Append(r.saldo, acc1),
                     pay_m |-> IF acc1 >= 0 /\ ~r.pay_m.some THEN Month(m) ELSE r.pay_m])

debt_payback_series(invest_inicial, lucro_operacional, juros_only, parcela, carencia) ==
  LET r == DebtLoop(1, Horizon, -invest_inicial, lucro_operacional, juros_only, parcela, carencia,
                    [saldo |-> <<-invest_inicial>>, pay_m |-> NoMonth])
  IN  [df |-> Frame(r.saldo), pay_m |-> r.pay_m]

Invests == {0, 6, 10}
MonthlyCash == {-2, 0, 2, 3, 20}
Interests == {0, 1}
Installments == {0, 2}
GracePeriods == {0, 2}

InitPayback ==
  /\ NoStore
  /\ \E invest \in Invests, cash \in MonthlyCash, juros \in Interests,
        parcela \in Installments, carencia \in GracePeriods :
       view = [kind |-> "cash", invest |-> invest, cash |-> cash, juros_only |-> juros,
               parcela |-> parcela, carencia |-> carencia]

\* vis == "Payback simples"
RunSimple ==
  /\ view.kind = "cash"
  /\ view' = [kind |-> "payback", vis |-> "simples", in |-> view, months |-> Horizon,
              res |-> build_payback_series(view.invest, view.cash, Horizon)]
  /\ UNCHANGED storeVars

\* vis == "Payback com dívida"
RunDebt ==
  /\ view.kind = "cash"
  /\ view' = [kind |-> "payback", vis |-> "divida", in |-> view, months |-> Horizon,
              res |-> debt_payback_series(view.invest, view.cash, view.juros_only,
                                          view.parcela, view.carencia)]
  /\ UNCHANGED storeVars

NextPayback ==
  \/ RunSimple
  \/ RunDebt

SpecPayback == InitPayback /\ [][NextPayback]_vars

\* C19: buildPaybackSeries(invest, cash, N) returns N+1 entries for months
\* 0..N in order, balance(0) = -invest and balance(m) = balance(m-1) + cash
\* (so balance(m) = -invest + m x cash); with cash = 0 and invest > 0 the
\* balance stays at -invest and no payback month is reported.
C19_PaybackSeries ==
  (view.kind = "payback" /\ view.vis = "simples") =>
    LET df == view.res.df
        N == view.months
    IN  /\ Len(df) = N + 1
        /\ \A i \in 1..Len(df) : df[i].Mes = i - 1
        /\ df[1].Saldo = 0 - view.in.invest
        /\ \A i \in 2..Len(df) : df[i].Saldo = df[i - 1].Saldo + view.in.cash
        /\ \A i \in 1..Len(df) : df[i].Saldo = view.in.cash * (i - 1) - view.in.invest
        /\ (view.in.cash = 0 /\ view.in.invest > 0) =>
             /\ \A i \in 1..Len(df) : df[i].Saldo = 0 - view.in.invest
             /\ ~view.res.pay_m.some

\* an investment with no monthly cash: flat, never paid back
C19_Witness ==
  /\ view.kind = "payback" /\ view.vis = "simples"
  /\ view.in.cash = 0 /\ view.in.invest = 10
  /\ view.res.df[Len(view.res.df)] = [Mes |-> Horizon, Saldo |-> -10]

\* C20: the payback month reported, by the unfinanced and by the financed
\* series, is the first index of the series, over all of 0..N starting at
\* month 0, whose balance is >= 0, and none exactly when no index has a
\* balance >= 0.
C20_FirstNonNegativeMonth ==
  view.kind = "payback" =>
    LET df == view.res.df
        reached == {i \in 1..Len(df) : df[i].Saldo >= 0}
    IN  IF reached = {} THEN ~view.res.pay_m.some
        ELSE /\ view.res.pay_m.some
             /\ \E i \in reached :
                  /\ view.res.pay_m.m = df[i].Mes
                  /\ \A j \in reached : df[i].Mes <= df[j].Mes

\* ------------------------------------------------------------------------
\* Price amortization.  pmt_price(pv, rate_month, nper), on exact rationals.
\* ------------------------------------------------------------------------
MaxPeriods == 4

\* base ** n for n >= 0
RECURSIVE RPow(_, _)
RPow(base, n) == IF n <= 0 THEN RInt(1) ELSE RMul(base, RPow(base, n - 1))

\* the installment of the exponential formula without the rate in the numerator
price_installment_noRate(pv, rate_month, nper) ==
  RDiv(pv, RSub(RInt(1), RInv(RPow(RAdd(RInt(1), rate_month), nper))))

\* (pv * rate_month) / (1 - (1 + rate_month) ** (-nper))
price_installment(pv, rate_month, nper) ==
  RDiv(RMul(pv, rate_month),
       RSub(RInt(1), RInv(RPow(RAdd(RInt(1), rate_month), nper))))

pmt_price(pv, rate_month, nper) ==
  IF nper <= 0 THEN RInt(0)
  ELSE IF RLe0(rate_month) THEN RDiv(pv, RInt(nper))
  ELSE price_installment(pv, rate_month, nper)

Principals == {RInt(0), RInt(40), RInt(80), RInt(120)}
\* monthly rates: none, negative, and 30 % and 60 % a year over 12 months
MonthlyRates == {Rat(-1, 20), RInt(0), Rat(1, 40), Rat(1, 20)}
Periods == -1..MaxPeriods

InitPmt ==
  /\ NoStore
  /\ \E pv \in Principals, rate \in MonthlyRates, nper \in Periods :
       view = [kind |-> "loan", pv |-> pv, rate |-> rate, nper |-> nper]

RunPmt ==
  /\ view.kind = "loan"
  /\ view' = [kind |-> "pmt", in |-> view,
              out |-> pmt_price(view.pv, view.rate, view.nper)]
  /\ UNCHANGED storeVars

NextPmt == RunPmt

SpecPmt == InitPmt /\ [][NextPmt]_vars

\* a < b on rationals
RLess(a, b) == RPos(RSub(b, a))

Max(a, b) == IF a >= b THEN a ELSE b

\* the periods of the installment without the floor of one period
amortization_periods_unfloored(prazo, carencia) == prazo - carencia

\* max(1, prazo - carencia)
amortization_periods(prazo, carencia) == Max(1, prazo - carencia)

\* valor_fin = invest_inicial * (pct_fin / 100.0)
valor_fin_of(invest_inicial, pct_fin) == RMul(RInt(invest_inicial), Rat(pct_fin, 100))
\* i_m = (juros_aa / 100.0) / 12.0
i_m_of(juros_aa) == RDiv(Rat(juros_aa, 100), RInt(12))

\* for m in range(1, 85): pay = juros_only if m <= carencia else parcela;
\* acc += (lucro_operacional - pay); saldo.append(acc);
\* if acc >= 0 and m_pay is None: m_pay = m
RECURSIVE FinancedLoop(_, _, _, _, _, _, _, _)
FinancedLoop(m, months, acc, lucro_operacional, juros_only, parcela, carencia, r) ==
  IF m > months THEN r
  ELSE LET pay == IF m <= carencia THEN juros_only ELSE parcela
           acc1 == RAdd(acc, RSub(lucro_operacional, pay))
       IN  FinancedLoop(m + 1, months, acc1, lucro_operacional, juros_only, parcela, carencia,
                        [saldo |-> Append(r.saldo, acc1),
                         m_pay |-> IF ~RPos(RNeg(acc1)) /\ ~r.m_pay.some
                                   THEN Month(m) ELSE r.m_pay])

\* the branch vis == "Payback com dívida" of the tab
financed_payback(invest_inicial, lucro_operacional, pct_fin, juros_aa, prazo, carencia) ==
  LET valor_fin == valor_fin_of(invest_inicial, pct_fin)
      i_m == i_m_of(juros_aa)
      parcela == pmt_price(valor_fin, i_m, amortization_periods(prazo, carencia))
      juros_only == RMul(valor_fin, i_m)
      r == FinancedLoop(1, Horizon, RInt(-invest_inicial), RInt(lucro_operacional),
                        juros_only, parcela, carencia,
                        [saldo |-> <<RInt(-invest_inicial)>>, m_pay |-> NoMonth])
  IN  [valor_fin |-> valor_fin, i_m |-> i_m, parcela |-> parcela,
       juros_only |-> juros_only, df |-> Frame(r.saldo), m_pay |-> r.m_pay]

FinInvests == {0, 200, 400}
OperatingCash == {-5, 0, 50, 300}
FinancedPercents == {0, 50, 100}
AnnualRates == {0, 30, 60}
Terms == {1, 3, 4}
Graces == {0, 2}

InitFinance ==
  /\ NoStore
  /\ \E invest \in FinInvests, lucro \in OperatingCash, pct \in FinancedPercents,
        juros \in AnnualRates, prazo \in Terms, carencia \in Graces :
       view = [kind |-> "financing", invest_inicial |-> invest, lucro_operacional |-> lucro,
               pct_fin |-> pct, juros_aa |-> juros, prazo |-> prazo, carencia |-> carencia]

RunFinanced ==
  /\ view.kind = "financing"
  /\ view' = [kind |-> "financed", in |-> view, months |-> Horizon,
              res |-> financed_payback(view.invest_inicial, view.lucro_operacional,
                                       view.pct_fin, view.juros_aa, view.prazo, view.carencia)]
  /\ UNCHANGED storeVars

NextFinance == RunFinanced

SpecFinance == InitFinance /\ [][NextFinance]_vars

\* the change of the balance in month m of the series
Change(df, m) == RSub(df[m + 1].Saldo, df[m].Saldo)
Principal(in) == RMul(RInt(in.invest_inicial), Rat(in.pct_fin, 100))
MonthlyRate(in) == Rat(in.juros_aa, 1200)

C26_NoPaymentAfterTerm ==
  view.kind = "financed" =>
    LET in == view.in
        df == view.res.df
    IN  \A m \in 1..view.months :
          m > in.prazo => Change(df, m) = RInt(in.lucro_operacional)

\* ------------------------------------------------------------------------
\* The "Mix & Demanda" tab: the volume and mix sliders, the mix it stores
\* and the preview it computes.
\* ------------------------------------------------------------------------
\* rest = max(0, 100 - mix_tap - mix_varejo_chope); ssum = mix_tap +
\* mix_varejo_chope + mix_varejo_emb; if ssum != 100: mix_varejo_emb = rest
mix_varejo_emb_of(mix_tap, mix_varejo_chope, emb_slider) ==
  IF mix_tap + mix_varejo_chope + emb_slider # 100
  THEN Max0(100 - mix_tap - mix_varejo_chope)
  ELSE emb_slider

\* what the sliders can be set to: each percentage in 0..100
TapSettings == {0, 30, 70, 100}
DraftSettings == {0, 25, 60, 100}
PackagedSettings == {0, 45, 100}

\* the cup of the preview: half a liter
HalfLiterCup == <<EmbRow("Copo Taproom", Rat(1, 2), 1)>>

InitMix ==
  /\ NoStore
  /\ \E vol \in Volumes, tap \in TapSettings, vch \in DraftSettings, emb \in PackagedSettings :
       view = [kind |-> "sliders", vol_mes |-> vol, mix_tap |-> tap,
               mix_varejo_chope |-> vch, emb_slider |-> emb]

\* a run of the tab: the mix written into the scenario and dre_preview
MixTab ==
  /\ view.kind = "sliders"
  /\ LET mix_varejo_emb == mix_varejo_emb_of(view.mix_tap, view.mix_varejo_chope, view.emb_slider)
     IN  view' = [kind |-> "mix", in |-> view,
                  mix |-> [vol |-> view.vol_mes, tap |-> view.mix_tap,
                           vch |-> view.mix_varejo_chope, vemb |-> mix_varejo_emb],
                  dre_preview |->
                    compute_monthly_dre(
                      [vol |-> view.vol_mes, tap |-> view.mix_tap, vch |-> view.mix_varejo_chope,
                       vemb |-> mix_varejo_emb, dist |-> EmptyFields, name |-> "",
                       rh |-> <<>>, rd |-> <<>>, emb |-> HalfLiterCup, precos |-> <<>>,
                       prem |-> EmptyFields])]
  /\ UNCHANGED storeVars

NextMix == MixTab

SpecMix == InitMix /\ [][NextMix]_vars

\* C27: for every combination of Taproom and Retail-draft percentages the
\* Mix tab accepts, the three mix percentages it stores and passes to the
\* P&L sum to at most 100, and the Taproom, Retail-draft and Retail-packaged
\* volumes together are at most the monthly volume.
C27_SalesWithinVolume ==
  view.kind = "mix" =>
    /\ view.mix.tap + view.mix.vch + view.mix.vemb <= 100
    /\ LET out == view.dre_preview
           sold == RAdd(RMul(out.cups, Rat(1, 2)), RAdd(out.vol_vch, out.vol_vemb))
       IN  ~RLess(RInt(view.mix.vol), sold)

\* ------------------------------------------------------------------------
\* The CAPEX tab: the category / status filter, the editor on the filtered
\* view, and _merge_filtered.  A row is [Categoria, Item, Valor, Status].
\* ------------------------------------------------------------------------
MaxRows == 2

\* base[key_cols].astype(str).agg("||".join, axis=1)
merge_key(row) == row.Categoria \o "||" \o row.Item

\* _merge_filtered(full_df, filtered_df, ["Categoria", "Item"])
merge_filtered(full_df, filtered_df) ==
  IF full_df = <<>> THEN filtered_df
  ELSE IF filtered_df = <<>> THEN full_df
  ELSE LET newKeys == {merge_key(filtered_df[i]) : i \in 1..Len(filtered_df)}
           base == SelectSeq(full_df, LAMBDA r : merge_key(r) \notin newKeys)
       IN  base \o filtered_df

\* df_show: the rows the two radios let through
Visible(row, cat, st_sel) ==
  /\ cat # "Todas" => row.Categoria = cat
  /\ st_sel # "Todos" => row.Status = st_sel
df_show_of(capex_df, cat, st_sel) == SelectSeq(capex_df, LAMBDA r : Visible(r, cat, st_sel))

\* the branch after the editor
capex_after(capex_df, edited, cat, st_sel) ==
  IF cat = "Todas" /\ st_sel = "Todos" THEN edited ELSE merge_filtered(capex_df, edited)

\* what the user does in the editor: nothing, delete a row, change a row's
\* value, rename a row's item, or add a row
Edits == {"none", "delete", "value", "rename", "add"}
Without(rows, i) == SubSeq(rows, 1, i - 1) \o SubSeq(rows, i + 1, Len(rows))
Edited(rows, edit, i) ==
  CASE edit = "delete" -> Without(rows, i)
    [] edit = "value" -> [rows EXCEPT ![i].Valor = 9]
    [] edit = "rename" -> [rows EXCEPT ![i].Item = "Bomba"]
    [] edit = "add" ->
         Append(rows, [Categoria |-> "Obras", Item |-> "Piso", Valor |-> 5, Status |-> "Pendente"])
    [] OTHER -> rows

CapexRows ==
  {[Categoria |-> "Tanques", Item |-> "Fermentador", Valor |-> 1, Status |-> "Pendente"],
   [Categoria |-> "Tanques", Item |-> "Fermentador", Valor |-> 2, Status |-> "Comprado"],
   [Categoria |-> "Tanques", Item |-> "Mosturador", Valor |-> 3, Status |-> "Pendente"],
   [Categoria |-> "Obras", Item |-> "Fermentador", Valor |-> 4, Status |-> "Comprado"]}
Categories(capex_df) == {capex_df[i].Categoria : i \in 1..Len(capex_df)}

InitCapex ==
  /\ NoStore
  /\ \E capex_df \in SeqsUpTo(CapexRows, MaxRows),
        cat \in {"Todas", "Tanques"}, st_sel \in {"Todos", "Pendente"} :
       /\ cat \in {"Todas"} \cup Categories(capex_df)
       /\ view = [kind |-> "capex", capex_df |-> capex_df, cat |-> cat, st_sel |-> st_sel]

\* a run of the tab with one edit made in the editor
CapexTab ==
  /\ view.kind = "capex"
  /\ LET df_show == df_show_of(view.capex_df, view.cat, view.st_sel)
     IN  \E edit \in Edits, i \in 1..Max(1, Len(df_show)) :
           /\ edit \in {"delete", "value", "rename"} => i <= Len(df_show)
           /\ edit \in {"none", "add"} => i = 1
           /\ view' = [kind |-> "merged", in |-> view, edit |-> edit, df_show |-> df_show,
                       edited |-> Edited(df_show, edit, i),
                       capex_df |-> capex_after(view.capex_df, Edited(df_show, edit, i),
                                                view.cat, view.st_sel)]
  /\ UNCHANGED storeVars

NextCapex == CapexTab

SpecCapex == InitCapex /\ [][NextCapex]_vars

\* how often a row occurs in a frame
Count(rows, r) == Cardinality({i \in 1..Len(rows) : rows[i] = r})
Hidden(in) == SelectSeq(in.capex_df, LAMBDA r : ~Visible(r, in.cat, in.st_sel))

\* C29: under an active category/status filter the merged collection is the
\* rows hidden by the filter, unchanged, plus exactly the rows of the edited
\* view: a row deleted from the view is gone and an edited row replaces its
\* original.
C29_MergeKeepsHiddenPlusEdited ==
  (view.kind = "merged" /\ ~(view.in.cat = "Todas" /\ view.in.st_sel = "Todos")) =>
    \A r \in CapexRows \cup {view.capex_df[i] : i \in 1..Len(view.capex_df)}
             \cup {view.edited[i] : i \in 1..Len(view.edited)} :
      Count(view.capex_df, r) = Count(Hidden(view.in), r) + Count(view.edited, r)

\* ------------------------------------------------------------------------
\* Creating and duplicating scenarios
\* ------------------------------------------------------------------------
\* C28: a create or a duplicate never overwrites a scenario: the name it
\* settles on is not in the store, the store gains exactly one entry, at the
\* end, every scenario that was there keeps its name, its content and its
\* place, and the new scenario is the selected one.
C28_CreateNeverOverwrites ==
  [][(BtnNew \/ BtnDup) =>
       /\ Len(db'.scenarios) = Len(db.scenarios) + 1
       /\ SubSeq(db'.scenarios, 1, Len(db.scenarios)) = db.scenarios
       /\ ~DictHas(db.scenarios, db'.scenarios[Len(db'.scenarios)].k)
       /\ db'.selected = db'.scenarios[Len(db'.scenarios)].k]_vars

\* the name typed was taken: the new scenario got the next free name, stands
\* after the one that has the name, and is selected
C28_Witness ==
  /\ session = "ready"
  /\ Len(db.scenarios) = 2
  /\ db.scenarios[1].k = "A"
  /\ db.scenarios[2] = [k |-> "A 2", v |-> default_scenario]
  /\ db.scenarios[1].v # default_scenario
  /\ db.selected = "A 2"

\* ------------------------------------------------------------------------
\* Duplication and the objects behind a scenario.  Python dicts are
\* objects: the heap maps an address to a scenario object, whose map groups
\* are addresses of further objects, or to a map object.  A store on the
\* heap is [scenarios, selected, heap, next]; scenarios is the ordered
\* name -> address mapping and next the first free address.
\* ------------------------------------------------------------------------
MaxCopies == 2
MapGroups == {"mix", "premissas"}

ScenarioObject(mix, premissas, capex_db) ==
  [type |-> "scenario", mix |-> mix, premissas |-> premissas, capex_db |-> capex_db,
   content |-> EmptyFields]
MapObject(content) ==
  [type |-> "map", mix |-> 0, premissas |-> 0, capex_db |-> <<>>, content |-> content]

\* dict.copy(): a new scenario object holding the same map objects
shallow_copy(st, a) ==
  [st EXCEPT !.heap = [x \in DOMAIN st.heap \cup {st.next} |->
                         IF x = st.next THEN st.heap[a] ELSE st.heap[x]],
             !.next = st.next + 1]

\* deepcopy(scenarios[cur]): a new scenario object holding new map objects
\* with the same content; the copy is at the old st.next
deepcopy(st, a) ==
  LET n == st.next
      copy == [st.heap[a] EXCEPT !.mix = n + 1, !.premissas = n + 2]
  IN  [st EXCEPT !.heap = [x \in DOMAIN st.heap \cup {n, n + 1, n + 2} |->
                             CASE x = n -> copy
                               [] x = n + 1 -> st.heap[st.heap[a].mix]
                               [] x = n + 2 -> st.heap[st.heap[a].premissas]
                               [] OTHER -> st.heap[x]],
                 !.next = n + 3]

\* btn_dup on the heap
duplicate_scenario(st) ==
  LET cur == st.selected
      base_name == cur \o " (cópia)"
      name == ProbeName(st.scenarios, base_name, base_name, 1)
      copied == deepcopy(st, DictGet(st.scenarios, cur))
  IN  [copied EXCEPT !.scenarios = DictSet(@, name, st.next), !.selected = name]

\* a page run in which a widget of a map group was changed: the group is
\* sc.get(group) or the default's, written in place (prem[k] = v, mix[k] = v)
\* and stored by persist_dfs (sc[group] = the same object)
edit_map(st, group, v) ==
  LET sc == DictGet(st.scenarios, st.selected)
      a == st.heap[sc][group]
  IN  IF NonEmptyDict(st.heap[a].content)
      THEN [st EXCEPT !.heap[a].content = [k \in DOMAIN @ |-> v]]
      ELSE [st EXCEPT !.heap = [x \in DOMAIN st.heap \cup {st.next} |->
                                  IF x = st.next THEN MapObject([k \in {"default"} |-> v])
                                  ELSE IF x = sc THEN [st.heap[sc] EXCEPT ![group] = st.next]
                                  ELSE st.heap[x]],
                      !.next = st.next + 1]

\* a page run in which the CAPEX editor was changed: persist_dfs stores the
\* records of the edited frame
edit_table(st, rows) ==
  [st EXCEPT !.heap[DictGet(st.scenarios, st.selected)].capex_db = rows]

\* a store of one scenario, its mix stored empty or not
HeapStores ==
  {[scenarios |-> <<[k |-> "Base", v |-> 1]>>, selected |-> "Base", next |-> 4,
    heap |-> [x \in 1..3 |->
                CASE x = 1 -> ScenarioObject(2, 3, <<>>)
                  [] x = 2 -> MapObject(mix)
                  [] OTHER -> MapObject([k \in {"GIP"} |-> 0])]] :
     mix \in {EmptyFields, [k \in {"Volume"} |-> 0]}}

InitDup ==
  /\ NoStore
  /\ \E st \in HeapStores : view = [kind |-> "heap", st |-> st]

DupSelect ==
  /\ view.kind = "heap"
  /\ \E new_sel \in DictKeySet(view.st.scenarios) :
       /\ new_sel # view.st.selected
       /\ view' = [view EXCEPT !.st.selected = new_sel]
  /\ UNCHANGED storeVars

DupClick ==
  /\ view.kind = "heap"
  /\ Len(view.st.scenarios) <= MaxCopies
  /\ Len(view.st.selected \o " (cópia)") <= MaxNameLen
  /\ view' = [view EXCEPT !.st = duplicate_scenario(view.st)]
  /\ UNCHANGED storeVars

EditMap ==
  /\ view.kind = "heap"
  /\ \E group \in MapGroups, v \in {1} :
       view' = [view EXCEPT !.st = edit_map(view.st, group, v)]
  /\ UNCHANGED storeVars

EditTable ==
  /\ view.kind = "heap"
  /\ \E rows \in {<<>>, OneRow} :
       view' = [view EXCEPT !.st = edit_table(view.st, rows)]
  /\ UNCHANGED storeVars

NextDup ==
  \/ DupSelect
  \/ DupClick
  \/ EditMap
  \/ EditTable

SpecDup == InitDup /\ [][NextDup]_vars

\* what a scenario holds, read through its objects
ContentOf(st, name) ==
  LET sc == st.heap[DictGet(st.scenarios, name)]
  IN  [mix |-> st.heap[sc.mix].content, premissas |-> st.heap[sc.premissas].content,
       capex_db |-> sc.capex_db]

\* C25: right after a duplication the copy equals its source, and an edit of
\* the selected scenario - of a table or in place of a nested map - leaves
\* every other scenario, its copies and its source among them, as it was.
C25_CopyIndependent ==
  [][/\ DupClick =>
          /\ ContentOf(view'.st, view'.st.selected) = ContentOf(view.st, view.st.selected)
          /\ \A n \in DictKeySet(view.st.scenarios) :
               ContentOf(view'.st, n) = ContentOf(view.st, n)
     /\ (EditMap \/ EditTable) =>
          \A n \in DictKeySet(view.st.scenarios) \ {view.st.selected} :
            ContentOf(view'.st, n) = ContentOf(view.st, n)]_vars

\* the copy has been edited, in a nested map and in a table, and the source
\* still holds what it held
C25_Witness ==
  /\ view.kind = "heap"
  /\ Len(view.st.scenarios) = 2
  /\ view.st.selected = "Base (cópia)"
  /\ ContentOf(view.st, "Base (cópia)").premissas = [k \in {"GIP"} |-> 1]
  /\ ContentOf(view.st, "Base (cópia)").mix = [k \in {"Volume"} |-> 1]
  /\ ContentOf(view.st, "Base (cópia)").capex_db = OneRow
  /\ ContentOf(view.st, "Base") =
       [mix |-> [k \in {"Volume"} |-> 0], premissas |-> [k \in {"GIP"} |-> 0], capex_db |-> <<>>]

\* ------------------------------------------------------------------------
\* The "Receitas" tab inside a script run.  A run reads the frames of the
\* selected scenario from the session store (scenario_dfs), lets the
\* handlers of the tab work on these local frames, and stores the frames
\* with persist_dfs in its last line.  st.rerun() ends the run where it is
\* called and starts the next one from the store.
\*   sc      - the stored scenario: receitas_header, receitas_detalhe, mix
\*   frames  - the locals of a run: rh_df, rd_df, mix
\* ------------------------------------------------------------------------
BaseKey == "Receita Base (para custo)"
DefaultMix == [k \in {BaseKey} |-> "Pilsen Padrão"]
\* the one ingredient of insumos_db and its cost
Malt == [Nome |-> "malt", Custo |-> 3]

\* scenario_dfs, the recipe frames and the mix; aliased tells whether mix is
\* the stored object (sc.get("mix") was not empty) or a fresh default
recipe_frames(sc) ==
  [rh_df |-> sc.receitas_header,
   rd_df |-> clean_lines(clean_ids(sc.receitas_detalhe)),
   mix |-> IF NonEmptyDict(sc.mix) THEN sc.mix ELSE DefaultMix,
   aliased |-> NonEmptyDict(sc.mix)]

\* persist_dfs at the last line of the script
persist_dfs(sc, f) ==
  [sc EXCEPT !.receitas_header = f.rh_df, !.receitas_detalhe = f.rd_df, !.mix = f.mix]

Names(rh_df) == {rh_df[i].Nome : i \in 1..Len(rh_df)}
\* int(rh_df[rh_df["Nome"] == selected_recipe].iloc[0]["ID"])
rid_of(rh_df, selected_recipe) == Filter(rh_df, "Nome", selected_recipe)[1].ID

RECURSIVE MaxID(_)
MaxID(rh_df) ==
  IF Len(rh_df) = 1 THEN rh_df[1].ID
  ELSE Max(Head(rh_df).ID, MaxID(Tail(rh_df)))

\* form_new_recipe with a non-blank name: the local header frame after it
form_new_recipe(f, n, v) ==
  LET new_id == IF f.rh_df # <<>> THEN MaxID(f.rh_df) + 1 ELSE 1
  IN  [f EXCEPT !.rh_df = Append(@, [ID |-> new_id, Nome |-> Join(n), Volume |-> v])]

\* btn_del_recipe: the local frames and the mix after it
btn_del_recipe(f, selected_recipe) ==
  LET rid == rid_of(f.rh_df, selected_recipe)
      rh_df == SelectSeq(f.rh_df, LAMBDA r : r.ID # rid)
      rd_df == SelectSeq(f.rd_df, LAMBDA r : r.Receita_ID # Cell(rid))
  IN  [f EXCEPT !.rh_df = rh_df, !.rd_df = rd_df,
                !.mix = IF BaseKey \in DOMAIN f.mix /\ f.mix[BaseKey] = selected_recipe
                        THEN FieldSet(f.mix, BaseKey,
                                      IF rh_df # <<>> THEN rh_df[1].Nome ELSE "")
                        ELSE f.mix]

\* btn_add_ing: the local line frame after it
btn_add_ing(f, selected_recipe, qtd) ==
  [f EXCEPT !.rd_df = Append(@, [Receita_ID |-> Cell(rid_of(f.rh_df, selected_recipe)),
                                 Insumo |-> Malt.Nome, Qtd |-> Cell(qtd),
                                 Custo_Unit |-> Cell(Malt.Custo),
                                 Custo_Total |-> Cell(qtd * Malt.Custo)])]

\* what the user does in recipe_items_editor: nothing, a new quantity in the
\* first line, or the first line removed
ItemEdits == {"none", "qtd", "remove"}
edited_itens_of(itens, edit) ==
  CASE edit = "qtd" -> [itens EXCEPT ![1].Qtd = Cell(5)]
    [] edit = "remove" -> Tail(itens)
    [] OTHER -> itens

\* the composition column: itens, the editor, and rd_df put together again
composition(f, selected_recipe, edit) ==
  LET rid == rid_of(f.rh_df, selected_recipe)
      itens == Filter(f.rd_df, "Receita_ID", Cell(rid))
  IN  IF itens = <<>> THEN f
      ELSE [f EXCEPT !.rd_df = SelectSeq(f.rd_df, LAMBDA r : r.Receita_ID # Cell(rid))
                                 \o clean_lines(edited_itens_of(itens, edit))]

\* the Mix tab's "Receita base" selectbox as it first shows, written to mix
mix_receita_base(f) ==
  [f EXCEPT !.mix = FieldSet(f.mix, BaseKey,
                             IF f.rh_df = <<>> THEN ""
                             ELSE IF BaseKey \in DOMAIN f.mix /\ f.mix[BaseKey] \in Names(f.rh_df)
                                  THEN f.mix[BaseKey]
                                  ELSE f.rh_df[1].Nome)]

\* a run that reaches the last line: the tab with selected_recipe showing
\* and edit made in its editor, the Mix tab, persist_dfs
run_to_end(sc, selected_recipe, edit) ==
  LET f0 == recipe_frames(sc)
      f1 == IF selected_recipe \in Names(f0.rh_df) THEN composition(f0, selected_recipe, edit)
            ELSE f0
  IN  persist_dfs(sc, mix_receita_base(f1))

\* the store when st.rerun() is called with local frames f: the frames are
\* dropped; mix has been written in place if it is the stored object
store_at_rerun(sc, f) == IF f.aliased THEN [sc EXCEPT !.mix = f.mix] ELSE sc

\* st.rerun(): the next run, from the store, with no button pressed
rerun(sc, selected_recipe) == run_to_end(sc, selected_recipe, "none")

\* the session: the stored scenario, the scenario of the document last
\* saved, and the handler of the last run with the frames it had made
NoEdit == [op |-> "none", n |-> "", rid |-> 0, before |-> <<>>, rh_df |-> <<>>, rd_df |-> <<>>,
           pending |-> FALSE]
EditOf(op, n, rid, before, f) ==
  [op |-> op, n |-> n, rid |-> rid, before |-> before, rh_df |-> f.rh_df, rd_df |-> f.rd_df,
   pending |-> FALSE]
NotSaved == [some |-> FALSE, sc |-> <<>>]

StoredHeaders == <<[ID |-> 1, Nome |-> "IPA", Volume |-> 500],
                   [ID |-> 2, Nome |-> "Stout", Volume |-> 500],
                   [ID |-> 3, Nome |-> "Porter", Volume |-> 500]>>
StoredLine(rid) ==
  [Receita_ID |-> Cell(rid), Insumo |-> "malt", Qtd |-> Cell(2), Custo_Unit |-> Cell(3),
   Custo_Total |-> Cell(6)]
\* stored recipes: headers with distinct ids, lines of existing headers
RecipeScenarios ==
  {[receitas_header |-> SubSeq(StoredHeaders, 1, h), receitas_detalhe |-> rd, mix |-> mix] :
     h \in 0..MaxHeaders, rd \in SeqsUpTo({StoredLine(rid) : rid \in 1..MaxHeaders}, MaxLines),
     mix \in {EmptyFields, [k \in {BaseKey} |-> "IPA"]}}

InitRecipes ==
  /\ NoStore
  /\ \E sc \in RecipeScenarios :
       /\ \A i \in 1..Len(sc.receitas_detalhe) :
            sc.receitas_detalhe[i].Receita_ID.n <= Len(sc.receitas_header)
       /\ view = [kind |-> "session", sc |-> sc, saved |-> NotSaved, last |-> NoEdit]

\* what sel_recipe can show: a name of the header frame, or nothing
Selectable(sc) == IF sc.receitas_header = <<>> THEN {""} ELSE Names(sc.receitas_header)

RecipeNameInputs == {<<>>, <<" ">>, <<"A">>, <<"I", "P", "A">>}

\* form_new_recipe submitted
RecipeCreate ==
  /\ view.kind = "session"
  /\ \E n \in RecipeNameInputs, selected_recipe \in Selectable(view.sc) :
       IF Join(Strip(n)) = ""
       THEN view' = [view EXCEPT !.sc = run_to_end(view.sc, selected_recipe, "none"),
                                 !.last = [NoEdit EXCEPT !.op = "warning"]]
       ELSE LET f == form_new_recipe(recipe_frames(view.sc), n, 500)
            IN  view' = [view EXCEPT
                           !.sc = rerun(store_at_rerun(view.sc, f), selected_recipe),
                           !.last = EditOf("create", Join(n), 0, view.sc.receitas_header, f)]
  /\ UNCHANGED storeVars

\* btn_del_recipe clicked
RecipeDelete ==
  /\ view.kind = "session"
  /\ view.sc.receitas_header # <<>>
  /\ \E selected_recipe \in Selectable(view.sc) :
       LET f == btn_del_recipe(recipe_frames(view.sc), selected_recipe)
       IN  view' = [view EXCEPT
                      !.sc = rerun(store_at_rerun(view.sc, f), selected_recipe),
                      !.last = EditOf("delete", selected_recipe,
                                      rid_of(view.sc.receitas_header, selected_recipe),
                                      view.sc.receitas_header, f)]
  /\ UNCHANGED storeVars

\* btn_add_ing clicked
RecipeAddIngredient ==
  /\ view.kind = "session"
  /\ view.sc.receitas_header # <<>>
  /\ Len(view.sc.receitas_detalhe) < MaxLines
  /\ \E selected_recipe \in Selectable(view.sc), qtd \in {0, 2} :
       LET f == btn_add_ing(recipe_frames(view.sc), selected_recipe, qtd)
       IN  view' = [view EXCEPT
                      !.sc = rerun(store_at_rerun(view.sc, f), selected_recipe),
                      !.last = EditOf("add", selected_recipe,
                                      rid_of(view.sc.receitas_header, selected_recipe),
                                      view.sc.receitas_header, f)]
  /\ UNCHANGED storeVars

\* a cell of recipe_items_editor changed, or a row of it removed
RecipeEditItems ==
  /\ view.kind = "session"
  /\ view.sc.receitas_header # <<>>
  /\ \E selected_recipe \in Selectable(view.sc), edit \in ItemEdits \ {"none"} :
       /\ Filter(recipe_frames(view.sc).rd_df, "Receita_ID",
                 Cell(rid_of(view.sc.receitas_header, selected_recipe))) # <<>>
       /\ view' = [view EXCEPT
                     !.sc = run_to_end(view.sc, selected_recipe, edit),
                     !.last = EditOf("items", selected_recipe,
                                     rid_of(view.sc.receitas_header, selected_recipe),
                                     view.sc.receitas_header,
                                     composition(recipe_frames(view.sc), selected_recipe, edit))]
  /\ UNCHANGED storeVars

\* btn_save_sidebar: save_db(st.session_state.db), then the rest of the run
RecipeSave ==
  /\ view.kind = "session"
  /\ \E selected_recipe \in Selectable(view.sc) :
       view' = [view EXCEPT
                  !.saved = [some |-> TRUE, sc |-> view.sc],
                  !.sc = run_to_end(view.sc, selected_recipe, "none"),
                  !.last = [view.last EXCEPT
                              !.op = "save",
                              !.pending = view.last.op \in {"create", "delete", "add", "items"}]]
  /\ UNCHANGED storeVars

NextRecipes ==
  \/ RecipeCreate
  \/ RecipeDelete
  \/ RecipeAddIngredient
  \/ RecipeEditItems
  \/ RecipeSave

SpecRecipes == InitRecipes /\ [][NextRecipes]_vars

HeaderIds(rh) == {rh[i].ID : i \in 1..Len(rh)}

\* C23: after a create-recipe with a non-blank name the scenario's recipe
\* headers contain a header with that name whose id is max(existing ids) + 1,
\* or 1 if there was none; and header ids are unique within the scenario
\* after any sequence of create-recipe and delete-recipe.
C23_RecipeCreated ==
  view.kind = "session" =>
    LET rh == view.sc.receitas_header
    IN  /\ view.last.op = "create" =>
             \E i \in 1..Len(rh) :
               /\ rh[i].Nome = view.last.n
               /\ rh[i].ID = IF view.last.before = <<>> THEN 1
                             ELSE 1 + CHOOSE m \in HeaderIds(view.last.before) :
                                        \A x \in HeaderIds(view.last.before) : x <= m
               /\ rh[i].ID \notin HeaderIds(view.last.before)
        /\ \A i, j \in 1..Len(rh) : rh[i].ID = rh[j].ID => i = j

\* C24: after a delete-recipe on a header the scenario holds neither that
\* header nor a recipe line of its id, and every recipe line that remains
\* references an existing header.
C24_DeleteCascades ==
  (view.kind = "session" /\ view.last.op = "delete") =>
    LET rh == view.sc.receitas_header
        rd == view.sc.receitas_detalhe
    IN  /\ view.last.rid \notin HeaderIds(rh)
        /\ \A i \in 1..Len(rd) : rd[i].Receita_ID # Cell(view.last.rid)
        /\ \A i \in 1..Len(rd) : rd[i].Receita_ID.n \in HeaderIds(rh)

\* C30: at the end of the script run that handles an editing operation - an
\* edit of the recipe lines table, add ingredient, create recipe, delete
\* recipe - the store holds the frames the operation made, and the document
\* written by a Save that follows holds them too.
C30_NoEditLost ==
  view.kind = "session" =>
    /\ view.last.op \in {"create", "delete", "add", "items"} =>
         /\ view.sc.receitas_header = view.last.rh_df
         /\ view.sc.receitas_detalhe = view.last.rd_df
    /\ (view.last.op = "save" /\ view.last.pending) =>
         /\ view.saved.sc.receitas_header = view.last.rh_df
         /\ view.saved.sc.receitas_detalhe = view.last.rd_df

====
